---- MODULE Spec2Model ----
(***************************************************************************)
(* SecureIoTOS: the kernel bootstrap, scheduler and context switch (kernel  *)
(* crate), the round-robin Scheduler of the scheduler_ipc crate, the       *)
(* syscall layer (kernel/src/syscall.rs), the memory crate (heap, MPU,     *)
(* stack guards), the bootloader, and the message queues and binary flags  *)
(* of the ipc and scheduler_ipc crates, as one state machine.  The         *)
(* variable `build` says which crate's code is running in a behaviour.     *)
(***************************************************************************)
EXTENDS Integers, Sequences, FiniteSets, TLC

\* ------------------------------------------------------------------ bounds
MaxTasks == 3      \* largest task table explored
NVal == 2          \* distinct word values in registers and on stacks
StackLen == 10     \* bytes of a task stack (1024 in memory/src/stack.rs)
MaxStackWrites == 2    \* bytes the tasks write to their stacks
SIZE == 3          \* slots of the MessageQueue explored (its SIZE parameter)
CallWindow == 4    \* constructions and calls on the binary flags that are remembered

\* ------------------------------------------------------- program constants
FrameWords == 8    \* r4-r11 pushed by stmdb / popped by ldmia
KERNEL == 0        \* kernel/src/context.rs: privilege 0 = kernel
USER == 1          \* kernel/src/context.rs: privilege 1 = user
MAX_SYSCALL_ARGS == 6
\* SyscallError
Invalid == 1
BadAddress == 2
PermissionDenied == 3
TooLarge == 4
NotFound == 5
Unsupported == 6
Unknown == 65535
\* caps
SYS_TIME == 1      \* 1 << 0
SEND_MESSAGE == 2  \* 1 << 1
MaxMessageLen == 4096              \* SendMessageSyscall::handle: len > 4096
TimeSeconds == 1700000000          \* kernel_get_time_seconds
REGION0_BASE == 536870912          \* 0x2000_0000, the task-accessible SRAM region
REGION0_SIZE == 131072             \* 128KB
\* memory/src/lib.rs
HEAP_START == 536870912            \* 0x2000_0000
HEAP_SIZE == 16384                 \* 16 * 1024
\* memory/src/heap.rs
OOM_MAGIC == 1330597153            \* 0x4F4F4D21, "OOM!"
\* memory/src/mpu.rs MpuAccess
PrivRW == 3
UnprivRW == 3
PrivRO == 6
FullAccess == 7
\* memory/src/mpu.rs region bases
FLASH_BASE == 134217728            \* 0x0800_0000
SRAM_BASE == 536870912             \* 0x2000_0000
TASK1_STACK_BASE == 536936448      \* 0x2001_0000
TASK2_STACK_BASE == 537001984      \* 0x2002_0000
\* MPU_CTRL bits
MPU_CTRL_ENABLE == 1
MPU_CTRL_PRIVDEFENA == 4           \* 1 << 2

Regs == 4..11
Val == 0..(NVal - 1)
\* A task's stack holds one register frame below the running stack pointer.
StackWords == FrameWords
\* Word addresses. Address 0 is the null pointer; task i owns
\* [StackBase(i), StackTop(i)), a full-descending stack.
Addr == 1..(MaxTasks * StackWords)
StackBase(i) == 1 + i * StackWords
StackTop(i) == 1 + (i + 1) * StackWords

\* Register files a running task may leave in r4-r11.
RegFiles == { [r \in Regs |-> (r + k) % NVal] : k \in Val }

NoSnap == [regs |-> <<>>, psp |-> 0]

VARIABLES
    build,          \* "kernel" | "sched_ipc" | "dispatch" | "memory" | "encode" |
                    \* "systick" | "stack" | "stack_slice" | "bootloader" |
                    \* "msgq" | "spsc" | "kqueue" | "sync": the code under
                    \* execution
    \* ---- CPU
    regs,           \* r4-r11
    psp,            \* process stack pointer
    mem,            \* stack memory
    control,        \* CONTROL register: [npriv, spsel]
    primask,        \* TRUE = interrupts masked
    pendsv,         \* ICSR.PENDSVSET
    \* ---- kernel crate
    kstate,         \* "reset" | "running"
    TASKS,          \* kernel/src/scheduler.rs TASKS
    CURRENT_INDEX,  \* kernel/src/scheduler.rs CURRENT_INDEX
    cs_pc,          \* position inside do_context_switch: "idle" | "picked" | "saved"
    cs_cur,         \* do_context_switch's `current` (index of the outgoing task)
    \* ---- scheduler_ipc crate
    sched,          \* Scheduler { tasks, current }
    \* ---- syscall layer
    inp,            \* the test input of the syscall-layer build
    usize_bits,     \* width of usize in the build: 32 (Cortex-M) or 64 (host tests)
    sys,            \* the syscall made by the last step: its inputs and what the handler did
    \* ---- memory protection unit
    mpu,            \* MPU registers, SHCSR, and the position inside setup_mpu
    \* ---- memory crate: heap
    ALLOCATOR,      \* memory/src/heap.rs ALLOCATOR: [start, size, used]
    layout,         \* the Layout of the last allocation request
    OOM_RECORD,     \* memory/src/heap.rs OOM_RECORD
    OOM_USER_HANDLER,   \* memory/src/heap.rs OOM_USER_HANDLER: TRUE = Some(handler)
    oom,            \* alloc_error_handler: [running, pc, log]
    boot,           \* the boot steps completed so far, in order
    \* ---- SysTick
    syst,           \* SysTick registers: [csr, rvr, cvr], and the number of writes
    \* ---- memory crate: stack guards
    TASK_STACK1,    \* memory/src/stack.rs TASK_STACK1, lowest address first
    TASK_STACK2,    \* memory/src/stack.rs TASK_STACK2
    stack_writes,   \* number of bytes the tasks have written to their stacks
    \* ---- bootloader
    bl,             \* bootloader main: [pc, verified ("none" | "true" | "false"),
                    \* failsafe, log]
    \* ---- message queues and flags
    MSG_QUEUE,      \* scheduler_ipc/src/ipc.rs MSG_QUEUE, oldest message first
    queue,          \* an ipc::MessageQueue: [buffer, head, tail]
    fifo,           \* the messages enqueued into `queue` and not yet dequeued
    sem,            \* an ipc::Semaphore: its flag
    evt,            \* an ipc::EventFlags: its flag
    calls,          \* the last calls on sem and evt that write the flag
    spsc,           \* the producer and the consumer of `queue`, each inside its call
    \* ---- observation
    op,             \* name of the last operation
    snap,           \* per task: registers and psp at its last suspension
    hist            \* the current index before and after the last task_count schedule events

cpu == <<regs, psp, mem, control, primask, pendsv>>
kern == <<kstate, TASKS, CURRENT_INDEX, cs_pc, cs_cur>>
obs == <<op, snap, hist>>
heapv == <<ALLOCATOR, layout, OOM_RECORD, OOM_USER_HANDLER, oom>>
memv == <<mpu, heapv, boot>>
stackv == <<TASK_STACK1, TASK_STACK2, stack_writes>>
ipcv == <<MSG_QUEUE, queue, fifo, sem, evt, calls>>
devv == <<syst, stackv, bl, spsc, ipcv>>
vars == <<build, cpu, kern, sched, usize_bits, inp, sys, memv, devv, obs>>

\* ----------------------------------------------------------------- tasks
Task(id, privilege, sp) == [id |-> id, privilege |-> privilege, stack_pointer |-> sp]

\* scheduler_ipc/src/tasks.rs init_tasks: id i, privilege i, null stack pointer
\* (the source has the two tasks n = 2; a Scheduler takes any list).
init_tasks(n) == [i \in 0..(n - 1) |-> Task(i, i % 2, 0)]

\* kernel/src/init.rs get_tasks is referenced by the scheduler but not defined
\* in the sources: a static list ({id 0, Kernel}, {id 1, User}, ... alternating),
\* each saved stack pointer at an initial register frame at the top of the
\* task's own stack.
get_tasks(n) ==
    [i \in 0..(n - 1) |-> Task(i, IF i % 2 = 0 THEN KERNEL ELSE USER,
                               StackTop(i) - FrameWords)]

len(t) == Cardinality(DOMAIN t)

\* ------------------------------------------------------- register frames
\* stmdb sp!, {r4-r11}: r4 at the lowest address of the 8 words below p.
PushFrame(m, p, rg) ==
    [a \in Addr |-> IF a >= p - FrameWords /\ a < p THEN rg[4 + (a - (p - FrameWords))]
                    ELSE m[a]]

\* ldmia sp!, {r4-r11}: r4 from the lowest address.
PopFrame(m, sp) == [r \in Regs |-> m[sp + (r - 4)]]

\* ---------------------------------------------------------- machine words
\* A u32 is [top, low]: bit 31 and the low 31 bits. A u64 is [hi, lo]: the upper
\* 32 bits as a number and the lower 32 bits as a u32.
U32(t, l) == [top |-> t, low |-> l]
W(v) == U32(0, v)
U64(h, l) == [hi |-> h, lo |-> l]
L(v) == U64(0, W(v))

\* ---- syscall inputs
RawIds == {W(0), W(1), W(2), W(3), U32(1, 1)}
Ptrs == {L(0), L(REGION0_BASE), L(REGION0_BASE + REGION0_SIZE - 4)}
Lens == {L(0), L(10), L(MaxMessageLen), L(MaxMessageLen + 1), L(5000),
         U64(1, W(10)), U64(0, U32(1, 0))}
Contexts == [uid : {0, 1}, capabilities : 0..(SYS_TIME + SEND_MESSAGE)]
NArgs == {0, 1, 2, 3, MAX_SYSCALL_ARGS}
MkArgs(a0, a1, a2, nargs) ==
    [args |-> <<a0, a1, a2, L(0), L(0), L(0)>>, nargs |-> nargs]
\* The (a0, a1) pairs the tasks of the kernel build pass to syscall_entry.
TaskArgs == {<<L(REGION0_BASE), L(10)>>, <<L(0), L(0)>>}
NoInput == [raw_id |-> W(0)]

\* The Result<u32, SyscallError> values handed to encode_syscall_result: small
\* and large successes (below and from 2^31) and every error kind.
SyscallErrors == {Invalid, BadAddress, PermissionDenied, TooLarge, NotFound, Unsupported,
                  Unknown}
EncodeInputs ==
    {[ok |-> TRUE, val |-> v] :
        v \in {W(0), W(42), W(TimeSeconds), W(2147483647), U32(1, 0), U32(1, 42)}}
    \cup {[ok |-> FALSE, err |-> e] : e \in SyscallErrors}

\* ------------------------------------------------------------- bit fields
RECURSIVE BitOr(_, _)
BitOr(a, b) ==
    IF a = 0 THEN b
    ELSE IF b = 0 THEN a
    ELSE (IF a % 2 = 1 \/ b % 2 = 1 THEN 1 ELSE 0) + 2 * BitOr(a \div 2, b \div 2)

RECURSIVE BitAnd(_, _)
BitAnd(a, b) ==
    IF a = 0 \/ b = 0 THEN 0
    ELSE (IF a % 2 = 1 /\ b % 2 = 1 THEN 1 ELSE 0) + 2 * BitAnd(a \div 2, b \div 2)

Shl(v, n) == v * 2^n
\* The field of `width` bits of v that starts at bit `lo`.
Bits(v, lo, width) == (v \div 2^lo) % 2^width

\* ----------------------------------------------- memory protection unit
Slots == 0..7
Write(reg, val) == [reg |-> reg, val |-> val]

\* The reset state of the MPU of a part whose MPU_TYPE reads t, with MPU_CTRL c.
MpuReset(t, c) ==
    [type |-> t, ctrl |-> c, rnr |-> 0,
     rbar |-> [s \in Slots |-> 0], rasr |-> [s \in Slots |-> 0],
     shcsr |-> 0, pc |-> 0, last |-> Write("none", 0)]

\* A register write: RBAR and RASR go to the slot RNR selects; SHCSR is
\* modified by or-ing the value in. On a part without MPU (MPU_TYPE reads 0)
\* the MPU registers read as zero and ignore writes.
MpuApply(m, w) ==
    LET n == [m EXCEPT !.pc = @ + 1, !.last = w] IN
    CASE w.reg # "shcsr" /\ m.type = 0 -> n
      [] w.reg = "ctrl" -> [n EXCEPT !.ctrl = w.val]
      [] w.reg = "rnr" -> [n EXCEPT !.rnr = w.val]
      [] w.reg = "rbar" -> [n EXCEPT !.rbar[m.rnr] = w.val]
      [] w.reg = "rasr" -> [n EXCEPT !.rasr[m.rnr] = w.val]
      [] w.reg = "shcsr" -> [n EXCEPT !.shcsr = BitOr(@, w.val)]

Region(base, size_field, ap, xn) ==
    [base |-> base, size_field |-> size_field, ap |-> ap, xn |-> xn]

\* A region table whose slot 2 is a 512 KB region over all of SRAM, written
\* after the 64-byte kernel-stack region it contains.
mem_regions_overlap ==
    <<Region(FLASH_BASE, 5, PrivRO, 0),
      Region(SRAM_BASE, 5, PrivRW, 1),
      Region(SRAM_BASE, 18, UnprivRW, 1),
      Region(TASK2_STACK_BASE, 4, UnprivRW, 1)>>

\* memory/src/mpu.rs setup_mpu, regions 0..3: kernel code, kernel stack,
\* task 1 stack, task 2 stack, with the size fields 0b101 and 0b100 as written.
mem_regions ==
    <<Region(FLASH_BASE, 5, PrivRO, 0),
      Region(SRAM_BASE, 5, PrivRW, 1),
      Region(TASK1_STACK_BASE, 4, UnprivRW, 1),
      Region(TASK2_STACK_BASE, 4, UnprivRW, 1)>>

\* A RASR value with the XN flag one bit too low.
rasr_xn27(r) ==
    BitOr(BitOr(BitOr(Shl(r.size_field, 1), Shl(1, 0)), Shl(r.ap, 24)), Shl(r.xn, 27))

\* memory/src/mpu.rs: (size << 1) | (1 << 0) | (ap as u32) << 24 | (xn << 28).
rasr(r) ==
    BitOr(BitOr(BitOr(Shl(r.size_field, 1), Shl(1, 0)), Shl(r.ap, 24)), Shl(r.xn, 28))

RegionWrites(i, r) == <<Write("rnr", i), Write("rbar", r.base), Write("rasr", rasr(r))>>

\* A setup_mpu that does not disable the MPU first.
memory_setup_mpu_nodisable ==
    RegionWrites(0, mem_regions[1]) \o RegionWrites(1, mem_regions[2])
    \o RegionWrites(2, mem_regions[3]) \o RegionWrites(3, mem_regions[4])
    \o <<Write("ctrl", BitOr(Shl(1, 0), Shl(1, 2))), Write("shcsr", Shl(1, 16))>>

\* memory/src/mpu.rs setup_mpu as its sequence of register writes.
memory_setup_mpu ==
    <<Write("ctrl", 0)>>
    \o RegionWrites(0, mem_regions[1]) \o RegionWrites(1, mem_regions[2])
    \o RegionWrites(2, mem_regions[3]) \o RegionWrites(3, mem_regions[4])
    \o <<Write("ctrl", BitOr(Shl(1, 0), Shl(1, 2))), Write("shcsr", Shl(1, 16))>>

\* kernel/src/init.rs setup_mpu: Err(MpuUnavailable) when MPU_TYPE reads 0, else
\* the writes that configure the single region 0 and Ok(()).
kernel_setup_mpu(mpu_type) ==
    IF mpu_type = 0
    THEN [ok |-> FALSE, writes |-> <<>>]
    ELSE [ok |-> TRUE,
          writes |-> <<Write("ctrl", 0),
                       Write("rnr", 0),
                       Write("rbar", REGION0_BASE),
                       Write("rasr", BitOr(BitOr(Shl(1, 0), Shl(3, 24)),
                                           Shl(BitAnd(16, 31), 1))),
                       Write("ctrl", BitOr(MPU_CTRL_ENABLE, MPU_CTRL_PRIVDEFENA))>>]

\* The configurator of the build: kernel_init calls kernel/src/init.rs
\* setup_mpu, memory_init calls memory/src/mpu.rs setup_mpu.
MpuProgram ==
    IF build = "kernel" THEN kernel_setup_mpu(mpu.type).writes ELSE memory_setup_mpu

MpuDone == mpu.pc = Len(MpuProgram)

\* -------------------------------------------------------------- SysTick
\* kernel/src/init.rs core_clock_hz.
core_clock_hz == 168000000
\* The largest value the 24-bit reload register holds.
SYST_MAX == 16777215
SYSTICK_CLKSOURCE_PROC == 4
SYSTICK_TICKINT == 2
SYSTICK_ENABLE == 1

\* A write to a SysTick register; "csr_or" is a read-modify-write of CSR that
\* sets bits.
SystApply(s, w) ==
    LET n == [s EXCEPT !.writes = @ + 1] IN
    CASE w.reg = "csr" -> [n EXCEPT !.csr = w.val]
      [] w.reg = "csr_or" -> [n EXCEPT !.csr = BitOr(@, w.val)]
      [] w.reg = "rvr" -> [n EXCEPT !.rvr = w.val]
      [] w.reg = "cvr" -> [n EXCEPT !.cvr = w.val]

RECURSIVE SystRun(_, _)
SystRun(s, ws) == IF ws = <<>> THEN s ELSE SystRun(SystApply(s, Head(ws)), Tail(ws))

\* An init_systick that programmes the timer without checking ticks; the u32
\* subtraction 0 - 1 leaves the 24-bit range.
init_systick_nocheck(ticks) ==
    [ok |-> TRUE,
     writes |-> <<Write("csr", 0), Write("rvr", ticks - 1), Write("cvr", 0),
                  Write("csr", SYSTICK_CLKSOURCE_PROC + SYSTICK_TICKINT + SYSTICK_ENABLE)>>]

\* kernel/src/init.rs init_systick: the result and the register writes made.
init_systick(ticks) ==
    IF ticks = 0 \/ ticks > SYST_MAX
    THEN [ok |-> FALSE, writes |-> <<>>]
    ELSE [ok |-> TRUE,
          writes |-> <<Write("csr", 0), Write("rvr", ticks - 1), Write("cvr", 0),
                       Write("csr", SYSTICK_CLKSOURCE_PROC + SYSTICK_TICKINT
                                    + SYSTICK_ENABLE)>>]

\* bootloader/src/nvic.rs init_systick, `let reload = (core_hz / tick_hz) - 1`
\* in u32: the values the build can produce. A zero divisor panics; 0 - 1
\* panics with overflow checks and wraps to 0xFFFF_FFFF without.
Panicked == [panic |-> TRUE, val |-> W(0)]
Value(v) == [panic |-> FALSE, val |-> v]
nvic_reload(core_hz, tick_hz) ==
    IF tick_hz = 0 THEN {Panicked}
    ELSE LET quot == core_hz \div tick_hz IN
         IF quot = 0 THEN {Panicked, Value(U32(1, 2147483647))} ELSE {Value(W(quot - 1))}

\* bootloader/src/nvic.rs init_systick after the reload is computed: the
\* assert!, then the register writes.
nvic_init_systick(reload) ==
    IF reload.panic \/ reload.val.top # 0 \/ reload.val.low >= 2^24
    THEN [ok |-> FALSE, writes |-> <<>>]
    ELSE [ok |-> TRUE,
          writes |-> <<Write("csr_or", SYSTICK_CLKSOURCE_PROC),
                       Write("rvr", reload.val.low),
                       Write("cvr", 0), Write("csr_or", SYSTICK_TICKINT),
                       Write("csr_or", SYSTICK_ENABLE)>>]

\* The arguments the SysTick initialisers are tried with.
Ticks == {0, 1, 168000, SYST_MAX, SYST_MAX + 1, 2147483647}
ClockHz == {999, 48000000, 168000000}
TickHz == {0, 1, 1000}
SystickInputs ==
    [fn : {"kernel"}, ticks : Ticks, core_hz : {0}, tick_hz : {0}]
        \cup [fn : {"bootloader"}, ticks : {0}, core_hz : ClockHz, tick_hz : TickHz]

\* ------------------------------------------------ memory crate: stack guards
STACK_PATTERN == 165
STACK_CANARY == <<222, 173, 190, 239, 202, 254, 186, 190>>
\* TASK_STACK1 and TASK_STACK2 as the statics are initialised: all zero.
Zeroes(n) == [i \in 1..n |-> 0]
ZeroStack == Zeroes(StackLen)
\* The byte values a task writes to its stack: zero, the watermark, and a byte
\* that occurs in the canary.
TaskBytes == {0, STACK_PATTERN, STACK_CANARY[3]}

\* The stack functions take a slice of any length; write_canary needs at least
\* the canary's length. The slice lengths below that of the two statics.
SliceLens == Len(STACK_CANARY)..(StackLen - 1)

write_task_stack(stack, data) == [i \in 1..Len(stack) |-> data]
\* A write_canary that stores only the first half of the canary.
write_canary_half(stack) ==
    [i \in 1..Len(stack) |-> IF i <= Len(STACK_CANARY) \div 2 THEN STACK_CANARY[i] ELSE stack[i]]

\* stack[..n].copy_from_slice(&STACK_CANARY)
write_canary(stack) ==
    [i \in 1..Len(stack) |-> IF i <= Len(STACK_CANARY) THEN STACK_CANARY[i] ELSE stack[i]]

\* An init_task_stack that writes the canary first and the watermark over it.
init_task_stack_canary_first(stack) == write_task_stack(write_canary(stack), STACK_PATTERN)

init_task_stack(stack) == write_canary(write_task_stack(stack, STACK_PATTERN))

\* check_canary: "panic" if the lowest bytes are not the canary, else "ok".
check_canary(stack) ==
    IF SubSeq(stack, 1, Len(STACK_CANARY)) # STACK_CANARY THEN "panic" ELSE "ok"

check_canary_all(stack1, stack2) ==
    IF check_canary(stack1) = "panic" THEN "panic" ELSE check_canary(stack2)

\* stack.iter().rev().take_while(|&&b| b == STACK_PATTERN).count(), the
\* iteration being at index i.
RECURSIVE untouched_from_top(_, _)
untouched_from_top(stack, i) ==
    IF i = 0 THEN 0
    ELSE IF stack[i] = STACK_PATTERN THEN 1 + untouched_from_top(stack, i - 1)
    ELSE 0

saturating_sub(a, b) == IF a >= b THEN a - b ELSE 0

\* A used_stack_bytes that counts every watermark byte of the stack.
used_stack_bytes_anywhere(stack) ==
    saturating_sub(Len(stack),
                   Cardinality({i \in 1..Len(stack) : stack[i] = STACK_PATTERN}))

used_stack_bytes(stack) ==
    saturating_sub(Len(stack), untouched_from_top(stack, Len(stack)))

free_stack_bytes(stack) == Len(stack) - used_stack_bytes(stack)

\* ------------------------------------------------------------- bootloader
EXPECTED_HASH == [i \in 1..32 |-> 0]
\* The images that may sit at FIRMWARE_START: the released one and a modified
\* one.
Firmwares == {"released", "modified"}

\* bootloader/src/main.rs verify_firmware: "Placeholder returns true for now".
verify_firmware(firmware, expected_hash) == TRUE

\* A main that transfers control without calling verify_firmware.
bootloader_main_noverify == <<"init_nvic", "init_systick", "control_write", "firmware_entry">>

\* bootloader/src/main.rs main: its statements in order. verify_firmware
\* stands for `if !verify_firmware(..) { fail_safe(); }`.
bootloader_main ==
    <<"init_nvic", "init_systick", "verify_firmware", "control_write", "firmware_entry">>

\* --------------------------------------------------------- message queues
Some(v) == [some |-> TRUE, val |-> v]

\* ipc/src/lib.rs IpcMessage and IpcMessage::new().
IpcMessage(data, length) == [data |-> data, length |-> length]
NewMessage == IpcMessage(<<0, 0, 0, 0>>, 0)
NoMessage == [some |-> FALSE, val |-> NewMessage]
\* The messages the tasks exchange.
Messages == {IpcMessage(<<1, 2, 3, 4>>, 4), IpcMessage(<<9, 8, 7, 6>>, 2)}

\* MessageQueue::new(): every slot holds the same bytes, whatever they are; no
\* slot is read before an enqueue has written it.
MessageQueue_new(fill) == [buffer |-> [i \in 0..(SIZE - 1) |-> fill], head |-> 0, tail |-> 0]

\* MessageQueue::enqueue: the result and the queue afterwards.
MessageQueue_enqueue(q, msg) ==
    LET head == q.head
        next_head == (head + 1) % SIZE
        tail == q.tail
    IN IF next_head = tail
       THEN [res |-> "Err", q |-> q]
       ELSE [res |-> "Ok", q |-> [q EXCEPT !.buffer[head] = msg, !.head = next_head]]

\* A dequeue that takes the newest message (the slot below head).
MessageQueue_dequeue_newest(q) ==
    LET tail == q.tail
        head == q.head
        last == (head + SIZE - 1) % SIZE
    IN IF tail = head
       THEN [res |-> NoMessage, q |-> q]
       ELSE [res |-> Some(q.buffer[last]), q |-> [q EXCEPT !.head = last]]

\* MessageQueue::dequeue.
MessageQueue_dequeue(q) ==
    LET tail == q.tail
        head == q.head
    IN IF tail = head
       THEN [res |-> NoMessage, q |-> q]
       ELSE [res |-> Some(q.buffer[tail]), q |-> [q EXCEPT !.tail = (tail + 1) % SIZE]]

\* scheduler_ipc/src/ipc.rs MSG_QUEUE: Queue<u32, 16>.
MSG_QUEUE_N == 16
None32 == [some |-> FALSE, val |-> 0]

\* heapless::spsc::Queue<T, N> keeps one of its N slots free to tell a full
\* queue from an empty one: it holds at most N - 1 elements.
Queue_capacity(n) == n - 1

\* heapless::spsc::Queue::enqueue, with map_err(|_| ()).
Queue_enqueue(q, msg) ==
    IF Len(q) = Queue_capacity(MSG_QUEUE_N)
    THEN [res |-> "Err", q |-> q]
    ELSE [res |-> "Ok", q |-> Append(q, msg)]

\* heapless::spsc::Queue::dequeue.
Queue_dequeue(q) ==
    IF q = <<>>
    THEN [res |-> None32, q |-> q]
    ELSE [res |-> Some(Head(q)), q |-> Tail(q)]

\* ------------------------------------------------------------ binary flags
\* ipc/src/lib.rs Semaphore: the flag after new(initial) and signal(), the
\* result and the flag after wait() (an atomic swap), the result of is_set().
Semaphore_new(initial) == initial
Semaphore_signal(flag) == TRUE

\* A wait that reads the flag and leaves it set.
Semaphore_wait_load(flag) == [res |-> flag, flag |-> flag]

Semaphore_wait(flag) == [res |-> flag, flag |-> FALSE]
Semaphore_is_set(flag) == flag

\* ipc/src/lib.rs EventFlags.
EventFlags_new == FALSE
EventFlags_set(flags) == TRUE
EventFlags_clear(flags) == FALSE
EventFlags_wait(flags) == [res |-> flags, flags |-> FALSE]

\* The tasks that share the semaphore and the event flag.
SyncTasks == {1, 2}
Call(obj, kind, res) == [obj |-> obj, kind |-> kind, res |-> res]
\* The last CallWindow calls, the newest last.
Record(h, c) == IF Len(h) < CallWindow THEN Append(h, c) ELSE Append(Tail(h), c)

\* ------------------------------------------------------ memory crate: heap
Layout(size, align) == [size |-> size, align |-> align]
NoLayout == Layout(0, 0)
AllocSizes == {4096, 8192, 20000}
Aligns == {1, 8}

\* LockedHeap::empty().
EmptyHeap == [start |-> 0, size |-> 0, used |-> 0]
\* MaybeUninit in .bss.
NoRecord == [size |-> 0, align |-> 0, magic |-> 0]
NoOom == [running |-> FALSE, pc |-> 0, log |-> <<>>]

\* ------------------------------------------------------------------ Init
InitCPU ==
    /\ regs = [r \in Regs |-> 0]
    /\ mem = [a \in Addr |-> 0]
    /\ control = [npriv |-> 0, spsel |-> 0]
    /\ primask = FALSE
    /\ pendsv = FALSE

SysNone == [kind |-> "none"]

InitObs ==
    /\ op = "init"
    /\ hist = <<0>>

\* SysTick out of reset: disabled, no register written yet.
SystReset == [csr |-> 0, rvr |-> 0, cvr |-> 0, writes |-> 0]
BlReset == [pc |-> 0, verified |-> "none", failsafe |-> FALSE, log |-> <<>>]
NoQueue == [buffer |-> <<>>, head |-> 0, tail |-> 0]

\* The state of the parts a build does not contain.
NoSyst == syst = SystReset
NoStack == TASK_STACK1 = <<>> /\ TASK_STACK2 = <<>> /\ stack_writes = 0
NoBl == bl = BlReset
\* Producer and consumer outside their calls.
NoSpsc == [p |-> [pc |-> "idle", msg |-> NewMessage],
           c |-> [pc |-> "idle", msg |-> NewMessage, want |-> NewMessage]]

NoIpc ==
    /\ spsc = NoSpsc
    /\ MSG_QUEUE = <<>>
    /\ queue = NoQueue
    /\ fifo = <<>>
    /\ sem = FALSE
    /\ evt = FALSE
    /\ calls = <<>>

InitHeap ==
    /\ ALLOCATOR = EmptyHeap
    /\ layout = NoLayout
    /\ OOM_RECORD = NoRecord
    /\ OOM_USER_HANDLER = FALSE
    /\ oom = NoOom
    /\ boot = <<>>

\* The part has no MPU (MPU_TYPE reads 0) or one with 8 regions (0x800); the
\* MPU is disabled out of reset.
InitKernel ==
    /\ build = "kernel"
    /\ \E t \in {0, 2048} : mpu = MpuReset(t, 0)
    /\ InitHeap
    /\ NoSyst /\ NoStack /\ NoBl /\ NoIpc
    /\ usize_bits = 32
    /\ inp = NoInput
    /\ kstate = "reset"
    /\ psp = 0
    /\ \E n \in 1..MaxTasks :
          /\ TASKS = get_tasks(n)
          /\ snap = [i \in 0..(n - 1) |-> NoSnap]
    /\ CURRENT_INDEX = 0
    /\ cs_pc = "idle"
    /\ cs_cur = 0
    /\ sched = [tasks |-> <<>>, current |-> 0]

InitSched ==
    /\ build = "sched_ipc"
    /\ mpu = MpuReset(2048, 0)
    /\ InitHeap
    /\ NoSyst /\ NoStack /\ NoBl /\ NoIpc
    /\ usize_bits = 32
    /\ inp = NoInput
    /\ kstate = "reset"
    /\ psp = StackTop(0)
    /\ TASKS = <<>>
    /\ CURRENT_INDEX = 0
    /\ cs_pc = "idle"
    /\ cs_cur = 0
    /\ \E n \in 1..MaxTasks :
          /\ sched = [tasks |-> init_tasks(n), current |-> 0]   \* Scheduler::new
          /\ snap = [i \in 0..(n - 1) |-> NoSnap]

\* The syscall layer alone, as its unit tests drive it: no task table; the
\* test chooses the identifier, the context and the arguments.
InitDispatch ==
    /\ build = "dispatch"
    /\ mpu = MpuReset(2048, 0)
    /\ InitHeap
    /\ NoSyst /\ NoStack /\ NoBl /\ NoIpc
    /\ usize_bits \in {32, 64}
    /\ inp \in [raw_id : RawIds, ctx : Contexts, a0 : Ptrs, a1 : Lens, nargs : NArgs]
    /\ kstate = "reset"
    /\ psp = 0
    /\ TASKS = <<>>
    /\ CURRENT_INDEX = 0
    /\ cs_pc = "idle"
    /\ cs_cur = 0
    /\ sched = [tasks |-> <<>>, current |-> 0]
    /\ snap = <<>>

NoKernel ==
    /\ kstate = "reset"
    /\ psp = 0
    /\ TASKS = <<>>
    /\ CURRENT_INDEX = 0
    /\ cs_pc = "idle"
    /\ cs_cur = 0
    /\ sched = [tasks |-> <<>>, current |-> 0]
    /\ snap = <<>>

\* The memory crate alone: memory_init is called with the MPU as reset left it
\* or as earlier code (a bootloader) left it, enabled; or on a part without
\* MPU.
InitMemory ==
    /\ build = "memory"
    /\ usize_bits = 32
    /\ inp = NoInput
    /\ NoKernel
    /\ \/ \E c \in {0, MPU_CTRL_ENABLE + MPU_CTRL_PRIVDEFENA} : mpu = MpuReset(2048, c)
       \/ mpu = MpuReset(0, 0)
    /\ InitHeap
    /\ NoSyst /\ NoStack /\ NoBl /\ NoIpc

\* encode_syscall_result alone, as tests::encode_decode_errors drives it.
InitEncode ==
    /\ build = "encode"
    /\ usize_bits = 32
    /\ inp \in [res : EncodeInputs]
    /\ NoKernel
    /\ mpu = MpuReset(2048, 0)
    /\ InitHeap
    /\ NoSyst /\ NoStack /\ NoBl /\ NoIpc

\* The SysTick initialisers alone: kernel_init's step 3 with the tick count a
\* platform's clock gives, and the bootloader's init_systick with its two
\* frequencies.
InitSystick ==
    /\ build = "systick"
    /\ usize_bits = 32
    /\ inp \in SystickInputs
    /\ NoKernel
    /\ mpu = MpuReset(2048, 0)
    /\ InitHeap
    /\ NoSyst /\ NoStack /\ NoBl /\ NoIpc

\* The stack guards alone, as tests::canary_all_ok_then_detects_overflow
\* drives them.
InitStack ==
    /\ build = "stack"
    /\ usize_bits = 32
    /\ inp = NoInput
    /\ NoKernel
    /\ mpu = MpuReset(2048, 0)
    /\ InitHeap
    /\ TASK_STACK1 = ZeroStack /\ TASK_STACK2 = ZeroStack /\ stack_writes = 0
    /\ NoSyst /\ NoBl /\ NoIpc

\* The stack functions on two zeroed slices of another length.
InitStackSlice ==
    /\ build = "stack_slice"
    /\ usize_bits = 32
    /\ inp = NoInput
    /\ NoKernel
    /\ mpu = MpuReset(2048, 0)
    /\ InitHeap
    /\ \E n \in SliceLens : TASK_STACK1 = Zeroes(n) /\ TASK_STACK2 = Zeroes(n)
    /\ stack_writes = 0
    /\ NoSyst /\ NoBl /\ NoIpc

\* The bootloader at reset, with either image in flash.
InitBootloader ==
    /\ build = "bootloader"
    /\ usize_bits = 32
    /\ inp \in [firmware : Firmwares]
    /\ NoKernel
    /\ mpu = MpuReset(2048, 0)
    /\ InitHeap
    /\ NoSyst /\ NoStack /\ NoBl /\ NoIpc

\* An ipc::MessageQueue alone, from MessageQueue::new().
InitMsgq ==
    /\ build = "msgq"
    /\ usize_bits = 32
    /\ inp = NoInput
    /\ NoKernel
    /\ mpu = MpuReset(2048, 0)
    /\ InitHeap
    /\ NoSyst /\ NoStack /\ NoBl
    /\ MSG_QUEUE = <<>>
    /\ \E fill \in Messages \cup {NewMessage} : queue = MessageQueue_new(fill)
    /\ fifo = <<>>
    /\ sem = FALSE /\ evt = FALSE /\ calls = <<>>
    /\ spsc = NoSpsc

\* An ipc::MessageQueue shared by a producer and a consumer that run
\* concurrently (a task and an interrupt handler, or two tasks under
\* preemption).
InitSpsc ==
    /\ build = "spsc"
    /\ usize_bits = 32
    /\ inp = NoInput
    /\ NoKernel
    /\ mpu = MpuReset(2048, 0)
    /\ InitHeap
    /\ NoSyst /\ NoStack /\ NoBl
    /\ MSG_QUEUE = <<>>
    /\ queue = MessageQueue_new(NewMessage)
    /\ fifo = <<>>
    /\ sem = FALSE /\ evt = FALSE /\ calls = <<>>
    /\ spsc = NoSpsc

\* The global kernel message queue alone, from Queue::new().
InitKqueue ==
    /\ build = "kqueue"
    /\ usize_bits = 32
    /\ inp = NoInput
    /\ NoKernel
    /\ mpu = MpuReset(2048, 0)
    /\ InitHeap
    /\ NoSyst /\ NoStack /\ NoBl /\ NoIpc

\* A Semaphore::new(initial) and an EventFlags::new() shared by the tasks.
InitSync ==
    /\ build = "sync"
    /\ usize_bits = 32
    /\ inp = NoInput
    /\ NoKernel
    /\ mpu = MpuReset(2048, 0)
    /\ InitHeap
    /\ NoSyst /\ NoStack /\ NoBl
    /\ MSG_QUEUE = <<>> /\ queue = NoQueue /\ fifo = <<>> /\ spsc = NoSpsc
    /\ \E initial \in BOOLEAN :
          /\ sem = Semaphore_new(initial)
          /\ calls = <<Call("sem", "new", initial), Call("evt", "new", FALSE)>>
    /\ evt = EventFlags_new

Init ==
    /\ InitCPU
    /\ InitObs
    /\ sys = SysNone
    /\ \/ InitKernel \/ InitSched \/ InitDispatch \/ InitMemory \/ InitEncode
       \/ InitSystick \/ InitStack \/ InitStackSlice \/ InitBootloader \/ InitMsgq \/ InitSpsc \/ InitKqueue
       \/ InitSync

\* --------------------------------------------------- observation helpers
\* The window of the last n + 1 current values: n schedule events and the index
\* they started from.
Slide(h, c, n) == IF Len(h) < n + 1 THEN Append(h, c) ELSE Append(Tail(h), c)

\* ------------------------------------------------------- the running task
\* Index of the task whose code is executing in thread mode.
Running == IF build = "kernel" THEN CURRENT_INDEX ELSE 0
InThread ==
    \/ build = "kernel" /\ kstate = "running" /\ cs_pc = "idle"
    \/ build = "sched_ipc"

\* The task computes: r4-r11 take new values.
TaskCompute ==
    /\ InThread
    /\ \E rf \in RegFiles : regs' = rf
    /\ sys' = SysNone
    /\ op' = "compute"
    /\ UNCHANGED <<build, devv, memv, psp, mem, control, primask, pendsv, kern, sched, usize_bits, inp,
                   snap, hist>>

\* ------------------------------------------------- kernel crate: bootstrap
\* kernel/src/init.rs switch_to_psp_unprivileged: CONTROL = nPRIV | SPSEL.
switch_to_psp_unprivileged == [npriv |-> 1, spsel |-> 1]

\* kernel/src/scheduler.rs trigger_pendsv: write PENDSVSET to ICSR.
trigger_pendsv == TRUE

\* A kernel_init that drops to unprivileged thread mode without waiting for
\* setup_mpu.
kernel_start_nompu ==
    /\ build = "kernel"
    /\ kstate = "reset"
    /\ kstate' = "running"
    /\ psp' = StackTop(0)
    /\ control' = switch_to_psp_unprivileged
    /\ pendsv' = trigger_pendsv
    /\ boot' = boot \o <<"unprivileged", "schedule">>
    /\ sys' = SysNone
    /\ op' = "kernel_start"
    /\ UNCHANGED <<build, devv, mpu, heapv, regs, mem, primask, TASKS, CURRENT_INDEX, cs_pc,
                   cs_cur, sched, usize_bits, inp, snap, hist>>

\* kernel/src/lib.rs kernel_start: the rest of kernel_init once setup_mpu and
\* init_systick have returned Ok (set_psp(first_task_sp), then
\* switch_to_psp_unprivileged), then scheduler::schedule().
kernel_start ==
    /\ build = "kernel"
    /\ kstate = "reset"
    /\ syst.writes > 0
    /\ kernel_setup_mpu(mpu.type).ok
    /\ MpuDone
    /\ kstate' = "running"
    /\ psp' = StackTop(0)
    /\ control' = switch_to_psp_unprivileged
    /\ pendsv' = trigger_pendsv
    /\ boot' = boot \o <<"unprivileged", "schedule">>
    /\ sys' = SysNone
    /\ op' = "kernel_start"
    /\ UNCHANGED <<build, devv, mpu, heapv, regs, mem, primask, TASKS, CURRENT_INDEX, cs_pc,
                   cs_cur, sched, usize_bits, inp, snap, hist>>

\* ------------------------------------------------- kernel crate: scheduler
\* A schedule() that moves the current index itself instead of deferring.
schedule_inline ==
    /\ build = "kernel"
    /\ kstate = "running"
    /\ ~primask
    /\ pendsv' = trigger_pendsv
    /\ CURRENT_INDEX' = (CURRENT_INDEX + 1) % len(TASKS)
    /\ sys' = [kind |-> "schedule", pending |-> pendsv]
    /\ op' = "schedule"
    /\ UNCHANGED <<build, devv, memv, regs, psp, mem, control, primask, kstate, TASKS, cs_pc,
                   cs_cur, sched, usize_bits, inp, snap, hist>>

\* kernel/src/scheduler.rs schedule(): a request, from the timer tick or from
\* the running code. It is an interrupt-level event: it can arrive whenever
\* interrupts are not masked, also between the steps of do_context_switch.
schedule ==
    /\ build = "kernel"
    /\ kstate = "running"
    /\ ~primask
    /\ pendsv' = trigger_pendsv
    /\ sys' = [kind |-> "schedule", pending |-> pendsv]
    /\ op' = "schedule"
    /\ UNCHANGED <<build, devv, memv, regs, psp, mem, control, primask, kern, sched, usize_bits, inp,
                   snap, hist>>

\* A successor that skips a task.
NextIndex_skip(cur, n) == (cur + 2) % n

\* A successor without the wrap-around.
NextIndex_nowrap(cur, n) == cur + 1

\* Round-robin successor: (current + 1) % tasks.len().
NextIndex(cur, n) == (cur + 1) % n

\* do_context_switch, first part: entered from the PendSV exception (taken when
\* the pending bit is set and interrupts are not masked; the hardware clears
\* the bit on entry); `current` is borrowed and CURRENT_INDEX moves to the next
\* task.
\* A do_context_switch that leaves CURRENT_INDEX on the outgoing task while
\* the context is switched.
Dcs_pick_keep ==
    /\ build = "kernel"
    /\ kstate = "running"
    /\ cs_pc = "idle"
    /\ pendsv
    /\ ~primask
    /\ pendsv' = FALSE
    /\ cs_cur' = CURRENT_INDEX
    /\ cs_pc' = "picked"
    /\ hist' = Slide(hist, CURRENT_INDEX, len(TASKS))
    /\ sys' = [kind |-> "pick", coalesced |-> sys.kind = "schedule" /\ sys.pending]
    /\ op' = "pick"
    /\ UNCHANGED <<build, devv, memv, regs, psp, mem, control, primask, kstate, TASKS,
                   CURRENT_INDEX, sched, usize_bits, inp, snap>>

\* A do_context_switch entry that leaves the request pending.
Dcs_pick_sticky ==
    /\ build = "kernel"
    /\ kstate = "running"
    /\ cs_pc = "idle"
    /\ pendsv
    /\ ~primask
    /\ cs_cur' = CURRENT_INDEX
    /\ CURRENT_INDEX' = NextIndex(CURRENT_INDEX, len(TASKS))
    /\ cs_pc' = "picked"
    /\ hist' = Slide(hist, CURRENT_INDEX', len(TASKS))
    /\ sys' = [kind |-> "pick", coalesced |-> sys.kind = "schedule" /\ sys.pending]
    /\ op' = "pick"
    /\ UNCHANGED <<build, devv, memv, regs, psp, mem, control, primask, pendsv, kstate, TASKS,
                   sched, usize_bits, inp, snap>>

Dcs_pick ==
    /\ build = "kernel"
    /\ kstate = "running"
    /\ cs_pc = "idle"
    /\ pendsv
    /\ ~primask
    /\ pendsv' = FALSE
    /\ cs_cur' = CURRENT_INDEX
    /\ CURRENT_INDEX' = NextIndex(CURRENT_INDEX, len(TASKS))
    /\ cs_pc' = "picked"
    /\ hist' = Slide(hist, CURRENT_INDEX', len(TASKS))
    /\ sys' = [kind |-> "pick", coalesced |-> sys.kind = "schedule" /\ sys.pending]
    /\ op' = "pick"
    /\ UNCHANGED <<build, devv, memv, regs, psp, mem, control, primask, kstate, TASKS,
                   sched, usize_bits, inp, snap>>

\* A save_cpu_state that stores the stack pointer in the descriptor after the
\* task's own.
save_cpu_state_next(tasks, i, m, p, rg) ==
    [tasks |-> [tasks EXCEPT ![(i + 1) % len(tasks)].stack_pointer = p - FrameWords],
     mem |-> PushFrame(m, p, rg)]

\* kernel/src/context.rs save_cpu_state(current): mrs sp, psp; stmdb sp!, {r4-r11};
\* task.stack_pointer = sp.
save_cpu_state(tasks, i, m, p, rg) ==
    [tasks |-> [tasks EXCEPT ![i].stack_pointer = p - FrameWords],
     mem |-> PushFrame(m, p, rg)]

Dcs_save ==
    /\ build = "kernel"
    /\ cs_pc = "picked"
    /\ LET s == save_cpu_state(TASKS, cs_cur, mem, psp, regs) IN
          /\ TASKS' = s.tasks
          /\ mem' = s.mem
    /\ snap' = [snap EXCEPT ![cs_cur] = [regs |-> regs, psp |-> psp]]
    /\ cs_pc' = "saved"
    /\ sys' = SysNone
    /\ op' = "save"
    /\ UNCHANGED <<build, devv, memv, regs, psp, control, primask, pendsv, kstate,
                   CURRENT_INDEX, cs_cur, sched, usize_bits, inp, hist>>

\* kernel/src/context.rs restore_cpu_state(next): ldmia sp!, {r4-r11}; msr psp, sp.
\* CONTROL is not written.
restore_cpu_state(task, m) ==
    [regs |-> PopFrame(m, task.stack_pointer),
     psp |-> task.stack_pointer + FrameWords]

Dcs_restore ==
    /\ build = "kernel"
    /\ cs_pc = "saved"
    /\ LET r == restore_cpu_state(TASKS[CURRENT_INDEX], mem) IN
          /\ regs' = r.regs
          /\ psp' = r.psp
    /\ cs_pc' = "idle"
    /\ sys' = SysNone
    /\ op' = "restore"
    /\ UNCHANGED <<build, devv, memv, mem, control, primask, pendsv, kstate, TASKS,
                   CURRENT_INDEX, cs_cur, sched, usize_bits, inp, snap, hist>>

\* ------------------------------------------------- scheduler_ipc crate
\* scheduler_ipc/src/tasks.rs save_cpu_state: task.stack_pointer = psp::read(),
\* then r4-r11 are pushed below psp.
ipc_save_cpu_state(tasks, i, m, p, rg) ==
    [tasks |-> [tasks EXCEPT ![i].stack_pointer = p],
     mem |-> PushFrame(m, p, rg)]

\* scheduler_ipc/src/tasks.rs restore_cpu_state: empty body.
ipc_restore_cpu_state(task, rg, p) == [regs |-> rg, psp |-> p]

\* scheduler_ipc/src/scheduler.rs Scheduler::schedule:
\* next = (current + 1) % len; context_switch(current, next); current = next.
Scheduler_schedule ==
    /\ build = "sched_ipc"
    /\ LET next == NextIndex(sched.current, len(sched.tasks))
           s == ipc_save_cpu_state(sched.tasks, sched.current, mem, psp, regs)
           r == ipc_restore_cpu_state(s.tasks[next], regs, psp)
       IN /\ mem' = s.mem
          /\ regs' = r.regs
          /\ psp' = r.psp
          /\ sched' = [tasks |-> s.tasks, current |-> next]
          /\ hist' = Slide(hist, next, len(sched.tasks))
    /\ snap' = [snap EXCEPT ![sched.current] = [regs |-> regs, psp |-> psp]]
    /\ sys' = [kind |-> "context_switch", outgoing |-> sched.current,
               incoming |-> NextIndex(sched.current, len(sched.tasks))]
    /\ op' = "Scheduler_schedule"
    /\ UNCHANGED <<build, devv, memv, control, primask, pendsv, kern, usize_bits, inp>>

\* ------------------------------------------------------ syscall layer

Ok(v) == [ok |-> TRUE, val |-> v]
Err(e) == [ok |-> FALSE, err |-> e]

\* impl From<SyscallError> for u32: e as u32.
u32_from(e) == W(e)

\* An encoding that leaves the failure flag out.
encode_syscall_result_noflag(res) ==
    IF res.ok THEN res.val ELSE U32(0, u32_from(res.err).low)

\* encode_syscall_result: Ok(v) => v; Err(e) => 0x8000_0000 | (u32::from(e) & 0x7FFF_FFFF).
encode_syscall_result(res) ==
    IF res.ok THEN res.val ELSE U32(1, u32_from(res.err).low)

\* SyscallArgs::arg_u64.
arg_u64(args, idx) ==
    IF idx >= args.nargs THEN Err(Invalid) ELSE Ok(args.args[idx + 1])

\* A conversion that compares only the low 31 bits.
try_from_low(v) ==
    IF v.low = 1 THEN Ok("GetTime")
    ELSE IF v.low = 2 THEN Ok("SendMessage")
    ELSE Err("unit")

\* impl TryFrom<u32> for SyscallId.
try_from(v) ==
    IF v = W(1) THEN Ok("GetTime")
    ELSE IF v = W(2) THEN Ok("SendMessage")
    ELSE Err("unit")

\* current_context(): the stub's fixed context.
current_context == [uid |-> 0, capabilities |-> SYS_TIME + SEND_MESSAGE]

\* (capabilities & cap) != 0, for a single-bit cap.
HasCap(capabilities, cap) == (capabilities \div cap) % 2 = 1

\* `as usize` of a u64: the low 32 bits on a 32-bit build. `as u32` likewise.
as_usize(v, bits) == IF bits = 64 THEN v ELSE U64(0, v.lo)
as_u32(v) == v.lo

IsZero(n) == n.hi = 0 /\ n.lo.top = 0 /\ n.lo.low = 0
GreaterThan(n, k) == n.hi > 0 \/ n.lo.top = 1 \/ n.lo.low > k

\* A clock that has passed 2^31 seconds.
kernel_get_time_seconds_2038 == U32(1, 0)

\* kernel_get_time_seconds.
kernel_get_time_seconds == W(TimeSeconds)

\* What a handler did: its result, the steps of its body it executed, the
\* range it copied from task memory, and whether the copy faulted.
NoCopy == [from |-> L(0), n |-> L(0)]
Out(res, steps, copied) == [res |-> res, steps |-> steps, copied |-> copied]

\* A GetTime that tests the wrong capability bit.
GetTime_handle_wrongcap(ctx, args) ==
    IF ~HasCap(ctx.capabilities, SEND_MESSAGE)
    THEN Out(Err(PermissionDenied), <<"cap">>, NoCopy)
    ELSE Out(Ok(kernel_get_time_seconds), <<"cap", "time">>, NoCopy)

\* GetTimeSyscall::handle.
GetTime_handle(ctx, args) ==
    IF ~HasCap(ctx.capabilities, SYS_TIME)
    THEN Out(Err(PermissionDenied), <<"cap">>, NoCopy)
    ELSE Out(Ok(kernel_get_time_seconds), <<"cap", "time">>, NoCopy)

\* validate_user_ptr: the stub accepts every range (and no code calls it).
validate_user_ptr(ptr, n) == TRUE

\* A copy that reads one byte past the destination's length.
copy_from_user_past(user_ptr, n) ==
    [res |-> Ok("unit"),
     copied |-> [from |-> user_ptr, n |-> U64(n.hi, U32(n.lo.top, n.lo.low + 1))]]

\* copy_from_user: a raw slice read of dst.len() bytes at user_ptr, then Ok(()).
copy_from_user(user_ptr, n) == [res |-> Ok("unit"), copied |-> [from |-> user_ptr, n |-> n]]

\* kernel_ipc_send: the stub returns Ok(()).
kernel_ipc_send(dest, n) == Ok("unit")

\* SendMessageSyscall::handle.
SendMessage_handle(ctx, args, bits) ==
    IF ~HasCap(ctx.capabilities, SEND_MESSAGE)
    THEN Out(Err(PermissionDenied), <<"cap">>, NoCopy)
    ELSE LET a0 == arg_u64(args, 0) IN
    IF ~a0.ok THEN Out(Err(Invalid), <<"cap", "arg0">>, NoCopy)
    ELSE LET a1 == arg_u64(args, 1) IN
    IF ~a1.ok THEN Out(Err(Invalid), <<"cap", "arg0", "arg1">>, NoCopy)
    ELSE LET a2 == arg_u64(args, 2) IN
    IF ~a2.ok THEN Out(Err(Invalid), <<"cap", "arg0", "arg1", "arg2">>, NoCopy)
    ELSE LET ptr == as_usize(a0.val, bits)
             n == as_usize(a1.val, bits)
             dest == as_u32(a2.val)
         IN
    IF IsZero(n) \/ GreaterThan(n, MaxMessageLen)
    THEN Out(Err(TooLarge), <<"cap", "arg0", "arg1", "arg2", "len">>, NoCopy)
    ELSE LET c == copy_from_user(ptr, n) IN
    IF ~c.res.ok
    THEN Out(Err(BadAddress), <<"cap", "arg0", "arg1", "arg2", "len", "copy">>, c.copied)
    ELSE LET sent == kernel_ipc_send(dest, n) IN
    IF ~sent.ok
    THEN Out(Err(Unknown),
             <<"cap", "arg0", "arg1", "arg2", "len", "copy", "send">>, c.copied)
    ELSE Out(Ok(W(0)), <<"cap", "arg0", "arg1", "arg2", "len", "copy", "send">>, c.copied)

\* dispatch_syscall.
dispatch_syscall(id, ctx, args, bits) ==
    IF id = "GetTime"
    THEN [handler |-> "GetTime"] @@ GetTime_handle(ctx, args)
    ELSE [handler |-> "SendMessage"] @@ SendMessage_handle(ctx, args, bits)

\* The range [ptr, ptr + n) lies in the task-accessible region.
InRegion0(ptr, n) ==
    /\ ptr.hi = 0 /\ ptr.lo.top = 0
    /\ n.hi = 0 /\ n.lo.top = 0
    /\ ptr.lo.low >= REGION0_BASE
    /\ ptr.lo.low - REGION0_BASE + n.lo.low <= REGION0_SIZE

\* The raw read of an unmapped range is undefined behaviour: the call may
\* return as if the read had succeeded, or take a memory fault.
CopyOutcomes(o) ==
    IF "copy" \in {o.steps[i] : i \in 1..Len(o.steps)}
       /\ ~InRegion0(o.copied.from, o.copied.n)
    THEN {"returned", "fault"}
    ELSE {"returned"}

\* dispatch_syscall called directly with the context and arguments of the test
\* input, as in tests::get_time_via_dispatch.
Dispatch ==
    /\ build = "dispatch"
    /\ try_from(inp.raw_id).ok
    /\ LET args == MkArgs(inp.a0, inp.a1, L(1), inp.nargs)
           id == try_from(inp.raw_id).val
           o == dispatch_syscall(id, inp.ctx, args, usize_bits)
       IN \E outcome \in CopyOutcomes(o) :
             sys' = [kind |-> "dispatch", id |-> id, ctx |-> inp.ctx, args |-> args,
                     outcome |-> outcome] @@ o
    /\ op' = "dispatch"
    /\ UNCHANGED <<build, devv, memv, cpu, kern, sched, usize_bits, inp, snap, hist>>

\* A syscall_entry that requests a reschedule on its way out.
SyscallEntry_yield(raw_id, a0, a1) ==
    /\ LET args == MkArgs(a0, a1, L(1), MAX_SYSCALL_ARGS)
           id == try_from(raw_id)
           caller == IF build = "kernel" THEN TASKS[CURRENT_INDEX].id ELSE 0
       IN IF ~id.ok
          THEN sys' = [kind |-> "entry", raw_id |-> raw_id, args |-> args,
                       caller |-> caller, handler |-> "none", steps |-> <<>>,
                       copied |-> NoCopy, outcome |-> "returned",
                       ret |-> encode_syscall_result(Err(Invalid))]
          ELSE LET ctx == current_context
                   o == dispatch_syscall(id.val, ctx, args, usize_bits)
               IN \E outcome \in CopyOutcomes(o) :
                     sys' = [kind |-> "entry", raw_id |-> raw_id, args |-> args,
                             caller |-> caller, id |-> id.val, ctx |-> ctx,
                             outcome |-> outcome,
                             ret |-> encode_syscall_result(o.res)] @@ o
    /\ op' = "syscall_entry"
    /\ pendsv' = trigger_pendsv
    /\ UNCHANGED <<build, devv, memv, regs, psp, mem, control, primask, kern, sched, usize_bits,
                   inp, snap, hist>>

\* syscall_entry(raw_id, a0..a5).
SyscallEntry(raw_id, a0, a1) ==
    /\ LET args == MkArgs(a0, a1, L(1), MAX_SYSCALL_ARGS)
           id == try_from(raw_id)
           caller == IF build = "kernel" THEN TASKS[CURRENT_INDEX].id ELSE 0
       IN IF ~id.ok
          THEN sys' = [kind |-> "entry", raw_id |-> raw_id, args |-> args,
                       caller |-> caller, handler |-> "none", steps |-> <<>>,
                       copied |-> NoCopy, outcome |-> "returned",
                       ret |-> encode_syscall_result(Err(Invalid))]
          ELSE LET ctx == current_context
                   o == dispatch_syscall(id.val, ctx, args, usize_bits)
               IN \E outcome \in CopyOutcomes(o) :
                     sys' = [kind |-> "entry", raw_id |-> raw_id, args |-> args,
                             caller |-> caller, id |-> id.val, ctx |-> ctx,
                             outcome |-> outcome,
                             ret |-> encode_syscall_result(o.res)] @@ o
    /\ op' = "syscall_entry"
    /\ UNCHANGED <<build, devv, memv, cpu, kern, sched, usize_bits, inp, snap, hist>>

\* A running task traps into the kernel; or the entry point is called with the
\* test input.
syscall_entry ==
    \/ /\ build = "kernel"
       /\ InThread
       /\ \E raw_id \in RawIds, a \in TaskArgs : SyscallEntry(raw_id, a[1], a[2])
    \/ /\ build = "dispatch"
       /\ SyscallEntry(inp.raw_id, inp.a0, inp.a1)

\* C11 harness: encode_syscall_result applied to the test input.
Encode ==
    /\ build = "encode"
    /\ sys' = [kind |-> "encode", res |-> inp.res, ret |-> encode_syscall_result(inp.res)]
    /\ op' = "encode"
    /\ UNCHANGED <<build, devv, memv, cpu, kern, sched, usize_bits, inp, snap, hist>>

\* ----------------------------------------------- region configuration
\* One register write of setup_mpu. In the kernel crate it runs inside
\* kernel_init, in the memory crate inside memory_init after init_heap.
setup_mpu_write ==
    /\ \/ build = "kernel" /\ kstate = "reset" /\ kernel_setup_mpu(mpu.type).ok
       \/ build = "memory" /\ boot = <<"init_heap">>
    /\ ~MpuDone
    /\ mpu' = MpuApply(mpu, MpuProgram[mpu.pc + 1])
    /\ boot' = IF mpu.pc + 1 = Len(MpuProgram) THEN Append(boot, "setup_mpu") ELSE boot
    /\ sys' = SysNone
    /\ op' = "mpu_write"
    /\ UNCHANGED <<build, devv, heapv, cpu, kern, sched, usize_bits, inp, snap, hist>>

\* kernel/src/init.rs kernel_init: setup_mpu returned Err, panic!.
kernel_init_panic ==
    /\ build = "kernel"
    /\ kstate = "reset"
    /\ ~kernel_setup_mpu(mpu.type).ok
    /\ kstate' = "panic"
    /\ sys' = SysNone
    /\ op' = "panic"
    /\ UNCHANGED <<build, devv, memv, cpu, TASKS, CURRENT_INDEX, cs_pc, cs_cur, sched,
                   usize_bits, inp, snap, hist>>

\* kernel/src/init.rs kernel_init, step 3: init_systick(core_hz / 1000), panic!
\* on Err. In the kernel build it follows setup_mpu and the tick count comes
\* from core_clock_hz.
kernel_init_systick ==
    /\ kstate = "reset"
    /\ syst.writes = 0
    /\ \/ build = "kernel" /\ kernel_setup_mpu(mpu.type).ok /\ MpuDone
       \/ build = "systick" /\ inp.fn = "kernel"
    /\ LET ticks == IF build = "kernel" THEN core_clock_hz \div 1000 ELSE inp.ticks
           r == init_systick(ticks)
       IN /\ syst' = SystRun(syst, r.writes)
          /\ kstate' = IF r.ok THEN kstate ELSE "panic"
          /\ sys' = [kind |-> "init_systick", ticks |-> ticks, ok |-> r.ok]
    /\ op' = "init_systick"
    /\ UNCHANGED <<build, stackv, bl, spsc, ipcv, memv, cpu, TASKS, CURRENT_INDEX, cs_pc, cs_cur,
                   sched, usize_bits, inp, snap, hist>>

\* bootloader/src/nvic.rs init_systick(syst, core_hz, tick_hz); a panic halts.
bootloader_init_systick ==
    /\ build = "systick"
    /\ inp.fn = "bootloader"
    /\ op = "init"
    /\ \E reload \in nvic_reload(inp.core_hz, inp.tick_hz) :
          LET r == nvic_init_systick(reload)
          IN /\ syst' = SystRun(syst, r.writes)
             /\ kstate' = IF r.ok THEN kstate ELSE "panic"
             /\ sys' = [kind |-> "nvic_init_systick", reload |-> reload, ok |-> r.ok]
    /\ op' = "nvic_init_systick"
    /\ UNCHANGED <<build, stackv, bl, spsc, ipcv, memv, cpu, TASKS, CURRENT_INDEX, cs_pc, cs_cur,
                   sched, usize_bits, inp, snap, hist>>

\* ------------------------------------------------ memory crate: stack guards
TaskStack(k) == IF k = 1 THEN TASK_STACK1 ELSE TASK_STACK2
\* Stack k becomes s, the other stack stays.
SetStack(k, s) ==
    /\ TASK_STACK1' = IF k = 1 THEN s ELSE TASK_STACK1
    /\ TASK_STACK2' = IF k = 2 THEN s ELSE TASK_STACK2
StackIdle == build \in {"stack", "stack_slice"} /\ kstate = "reset"
Zeroed(stack) == stack = Zeroes(Len(stack))
\* The statics take MaxStackWrites task writes, the slices one.
WriteLimit == IF build = "stack" THEN MaxStackWrites ELSE 1

\* init_task_stack(&mut TASK_STACKk), once per stack, before its task runs.
stack_init ==
    /\ StackIdle
    /\ \E k \in {1, 2} :
          /\ Zeroed(TaskStack(k))
          /\ SetStack(k, init_task_stack(TaskStack(k)))
          /\ sys' = [kind |-> "init_task_stack", k |-> k]
    /\ op' = "init_task_stack"
    /\ UNCHANGED <<build, syst, stack_writes, bl, spsc, ipcv, memv, cpu, kern, sched, usize_bits,
                   inp, snap, hist>>

\* A task (or the test, `TASK_STACK1[0] = 0x00`) writes one byte of a stack.
task_write ==
    /\ StackIdle
    /\ ~Zeroed(TASK_STACK1) /\ ~Zeroed(TASK_STACK2)
    /\ stack_writes < WriteLimit
    /\ \E k \in {1, 2}, b \in TaskBytes :
       \E i \in 1..Len(TaskStack(k)) :
          /\ SetStack(k, [TaskStack(k) EXCEPT ![i] = b])
          /\ sys' = [kind |-> "write", k |-> k, i |-> i, b |-> b]
    /\ stack_writes' = stack_writes + 1
    /\ op' = "task_write"
    /\ UNCHANGED <<build, syst, bl, spsc, ipcv, memv, cpu, kern, sched, usize_bits, inp, snap,
                   hist>>

\* check_canary(&TASK_STACKk); a panic halts.
stack_check ==
    /\ StackIdle
    /\ \E k \in {1, 2} :
          LET r == check_canary(TaskStack(k))
          IN /\ sys' = [kind |-> "check_canary", k |-> k, result |-> r]
             /\ kstate' = IF r = "panic" THEN "panic" ELSE kstate
    /\ op' = "check_canary"
    /\ UNCHANGED <<build, syst, stackv, bl, spsc, ipcv, memv, cpu, TASKS, CURRENT_INDEX, cs_pc,
                   cs_cur, sched, usize_bits, inp, snap, hist>>

\* check_canary_all(); a panic halts.
stack_check_all ==
    /\ StackIdle
    /\ LET r == check_canary_all(TASK_STACK1, TASK_STACK2)
       IN /\ sys' = [kind |-> "check_canary_all", result |-> r]
          /\ kstate' = IF r = "panic" THEN "panic" ELSE kstate
    /\ op' = "check_canary_all"
    /\ UNCHANGED <<build, syst, stackv, bl, spsc, ipcv, memv, cpu, TASKS, CURRENT_INDEX, cs_pc,
                   cs_cur, sched, usize_bits, inp, snap, hist>>

\* A schedule event as the stack guards see it: schedule() pends the switch and
\* do_context_switch picks the next task and switches to it
\* (kernel/src/scheduler.rs); neither reads or writes TASK_STACK1/2 nor calls
\* check_canary_all, whose only caller is the unit test.
schedule_event ==
    /\ build = "stack"
    /\ StackIdle
    /\ TASK_STACK1 # ZeroStack /\ TASK_STACK2 # ZeroStack
    /\ sys' = [kind |-> "schedule_event"]
    /\ op' = "schedule_event"
    /\ UNCHANGED <<build, syst, stackv, bl, spsc, ipcv, memv, cpu, kern, sched, usize_bits, inp,
                   snap, hist>>

\* used_stack_bytes(&TASK_STACKk) and free_stack_bytes(&TASK_STACKk).
stack_measure ==
    /\ StackIdle
    /\ \E k \in {1, 2} :
          sys' = [kind |-> "stack_bytes", k |-> k,
                  used |-> used_stack_bytes(TaskStack(k)),
                  free |-> free_stack_bytes(TaskStack(k))]
    /\ op' = "stack_bytes"
    /\ UNCHANGED <<build, syst, stackv, bl, spsc, ipcv, memv, cpu, kern, sched, usize_bits, inp,
                   snap, hist>>

\* ------------------------------------------------------------- bootloader
\* One statement of main. A failed verification enters fail_safe, which loops
\* on wfi for ever; firmware_entry() never returns.
bootloader_step ==
    /\ build = "bootloader"
    /\ ~bl.failsafe
    /\ bl.pc < Len(bootloader_main)
    /\ LET stmt == bootloader_main[bl.pc + 1]
           ok == verify_firmware(inp.firmware, EXPECTED_HASH)
           n == [bl EXCEPT !.pc = @ + 1, !.log = Append(@, stmt)]
       IN /\ bl' = IF stmt = "verify_firmware"
                   THEN [n EXCEPT !.verified = IF ok THEN "true" ELSE "false",
                                  !.failsafe = ~ok]
                   ELSE n
          /\ control' = IF stmt = "control_write"
                        THEN [npriv |-> 1, spsel |-> 0]      \* CONTROL.write(1)
                        ELSE control
          /\ op' = stmt
    /\ sys' = SysNone
    /\ UNCHANGED <<build, syst, stackv, spsc, ipcv, memv, regs, psp, mem, primask, pendsv, kern,
                   sched, usize_bits, inp, snap, hist>>

\* --------------------------------------------------------- message queues
\* queue.enqueue(msg) on the ipc crate's MessageQueue.
mq_enqueue ==
    /\ build = "msgq"
    /\ \E msg \in Messages :
          LET r == MessageQueue_enqueue(queue, msg)
          IN /\ queue' = r.q
             /\ fifo' = IF r.res = "Ok" THEN Append(fifo, msg) ELSE fifo
             /\ sys' = [kind |-> "enqueue", msg |-> msg, res |-> r.res, before |-> queue,
                        stored |-> Len(fifo)]
    /\ op' = "enqueue"
    /\ UNCHANGED <<build, syst, stackv, bl, spsc, MSG_QUEUE, sem, evt, calls, memv, cpu, kern,
                   sched, usize_bits, inp, snap, hist>>

\* queue.dequeue().
mq_dequeue ==
    /\ build = "msgq"
    /\ LET r == MessageQueue_dequeue(queue)
       IN /\ queue' = r.q
          /\ fifo' = IF r.res.some THEN Tail(fifo) ELSE fifo
          /\ sys' = [kind |-> "dequeue", res |-> r.res, before |-> queue,
                     oldest |-> IF fifo = <<>> THEN NoMessage ELSE Some(Head(fifo))]
    /\ op' = "dequeue"
    /\ UNCHANGED <<build, syst, stackv, bl, spsc, MSG_QUEUE, sem, evt, calls, memv, cpu, kern,
                   sched, usize_bits, inp, snap, hist>>

\* ---- MessageQueue with its producer and its consumer running concurrently.
\* head and tail are UnsafeCell<usize> and the slots plain memory: every access
\* is an ordinary load or store, with no atomic, fence or volatile between
\* them. Each step below makes one access to shared memory. Concurrent
\* unsynchronised access is a data race, so the build need not keep the two
\* stores of enqueue (slot, head) or the load and the store of dequeue (slot,
\* tail) in program order: either may become visible first.
SpscFrame ==
    UNCHANGED <<build, syst, stackv, bl, MSG_QUEUE, sem, evt, calls, memv, cpu, kern, sched,
                usize_bits, inp, snap, hist>>

\* The producer sends the two messages in turn.
SpscNextMessage(last) == CHOOSE m \in Messages : m # last

\* enqueue: `head = *head; next_head = (head + 1) % SIZE; tail = *tail;
\* if next_head == tail { return Err(()) }`.
enq_check ==
    /\ build = "spsc"
    /\ spsc.p.pc = "idle"
    /\ IF (queue.head + 1) % SIZE = queue.tail
       THEN /\ spsc' = spsc
            /\ sys' = [kind |-> "spsc_enqueue", res |-> "Err"]
       ELSE /\ spsc' = [spsc EXCEPT !.p = [pc |-> "checked",
                                            msg |-> SpscNextMessage(spsc.p.msg)]]
            /\ sys' = SysNone
    /\ op' = "enq_check"
    /\ UNCHANGED <<queue, fifo>>
    /\ SpscFrame

\* enqueue: `self.buffer[head] = msg`, before or after the store to head.
enq_store_slot ==
    /\ build = "spsc"
    /\ spsc.p.pc \in {"checked", "head_done"}
    /\ LET head == IF spsc.p.pc = "checked" THEN queue.head
                   ELSE (queue.head + SIZE - 1) % SIZE
       IN queue' = [queue EXCEPT !.buffer[head] = spsc.p.msg]
    /\ spsc' = [spsc EXCEPT !.p.pc = IF spsc.p.pc = "checked" THEN "slot_done" ELSE "idle"]
    /\ sys' = IF spsc.p.pc = "checked" THEN SysNone
              ELSE [kind |-> "spsc_enqueue", res |-> "Ok"]
    /\ op' = "enq_store_slot"
    /\ UNCHANGED fifo
    /\ SpscFrame

\* enqueue: `*head = next_head`; from here the consumer sees the message as
\* queued.
enq_store_head ==
    /\ build = "spsc"
    /\ spsc.p.pc \in {"checked", "slot_done"}
    /\ queue' = [queue EXCEPT !.head = (queue.head + 1) % SIZE]
    /\ fifo' = Append(fifo, spsc.p.msg)
    /\ spsc' = [spsc EXCEPT !.p.pc = IF spsc.p.pc = "checked" THEN "head_done" ELSE "idle"]
    /\ sys' = IF spsc.p.pc = "checked" THEN SysNone
              ELSE [kind |-> "spsc_enqueue", res |-> "Ok"]
    /\ op' = "enq_store_head"
    /\ SpscFrame

\* dequeue: `tail = *tail; head = *head; if tail == head { return None }`.
deq_check ==
    /\ build = "spsc"
    /\ spsc.c.pc = "idle"
    /\ IF queue.tail = queue.head
       THEN /\ spsc' = spsc
            /\ sys' = [kind |-> "spsc_dequeue", res |-> NoMessage, want |-> NoMessage]
       ELSE /\ spsc' = [spsc EXCEPT !.c.pc = "checked"]
            /\ sys' = SysNone
    /\ op' = "deq_check"
    /\ UNCHANGED <<queue, fifo>>
    /\ SpscFrame

\* dequeue: `msg = self.buffer[tail]`, before or after the store to tail.
deq_load ==
    /\ build = "spsc"
    /\ spsc.c.pc \in {"checked", "tail_done"}
    /\ LET tail == IF spsc.c.pc = "checked" THEN queue.tail
                   ELSE (queue.tail + SIZE - 1) % SIZE
           msg == queue.buffer[tail]
       IN IF spsc.c.pc = "checked"
          THEN /\ spsc' = [spsc EXCEPT !.c.pc = "loaded", !.c.msg = msg]
               /\ sys' = SysNone
          ELSE /\ spsc' = [spsc EXCEPT !.c = NoSpsc.c]
               /\ sys' = [kind |-> "spsc_dequeue", res |-> Some(msg),
                          want |-> Some(spsc.c.want)]
    /\ op' = "deq_load"
    /\ UNCHANGED <<queue, fifo>>
    /\ SpscFrame

\* dequeue: `*tail = (tail + 1) % SIZE`; the oldest queued message leaves the
\* queue.
deq_store_tail ==
    /\ build = "spsc"
    /\ spsc.c.pc \in {"checked", "loaded"}
    /\ queue' = [queue EXCEPT !.tail = (queue.tail + 1) % SIZE]
    /\ fifo' = Tail(fifo)
    /\ IF spsc.c.pc = "checked"
       THEN /\ spsc' = [spsc EXCEPT !.c.pc = "tail_done", !.c.want = Head(fifo)]
            /\ sys' = SysNone
       ELSE /\ spsc' = [spsc EXCEPT !.c = NoSpsc.c]
            /\ sys' = [kind |-> "spsc_dequeue", res |-> Some(spsc.c.msg),
                       want |-> Some(Head(fifo))]
    /\ op' = "deq_store_tail"
    /\ SpscFrame

\* The message the sender passes next: 10 and 20 in turn, as the test sends
\* them.
NextMessage == IF MSG_QUEUE = <<>> \/ MSG_QUEUE[Len(MSG_QUEUE)] = 20 THEN 10 ELSE 20

\* scheduler_ipc/src/ipc.rs init_queue, at system startup.
init_queue ==
    /\ build = "kqueue"
    /\ op = "init"
    /\ MSG_QUEUE' = <<>>
    /\ sys' = SysNone
    /\ op' = "init_queue"
    /\ UNCHANGED <<build, syst, stackv, bl, spsc, queue, fifo, sem, evt, calls, memv, cpu, kern,
                   sched, usize_bits, inp, snap, hist>>

\* scheduler_ipc/src/ipc.rs send_message, inside interrupt::free.
send_message ==
    /\ build = "kqueue"
    /\ LET msg == NextMessage
           r == Queue_enqueue(MSG_QUEUE, msg)
       IN /\ MSG_QUEUE' = r.q
          /\ sys' = [kind |-> "send_message", msg |-> msg, res |-> r.res,
                     before |-> MSG_QUEUE]
    /\ op' = "send_message"
    /\ UNCHANGED <<build, syst, stackv, bl, spsc, queue, fifo, sem, evt, calls, memv, cpu, kern,
                   sched, usize_bits, inp, snap, hist>>

\* scheduler_ipc/src/ipc.rs receive_message, inside interrupt::free.
receive_message ==
    /\ build = "kqueue"
    /\ LET r == Queue_dequeue(MSG_QUEUE)
       IN /\ MSG_QUEUE' = r.q
          /\ sys' = [kind |-> "receive_message", res |-> r.res, before |-> MSG_QUEUE]
    /\ op' = "receive_message"
    /\ UNCHANGED <<build, syst, stackv, bl, spsc, queue, fifo, sem, evt, calls, memv, cpu, kern,
                   sched, usize_bits, inp, snap, hist>>

\* ------------------------------------------------------------ binary flags
\* A call by task t on the semaphore; each is one atomic access of the flag.
Called(t, c) ==
    /\ calls' = Record(calls, c)
    /\ sys' = [kind |-> "call", task |-> t, call |-> c]
    /\ op' = c.kind

sem_signal ==
    /\ build = "sync"
    /\ sem' = Semaphore_signal(sem)
    /\ \E t \in SyncTasks : Called(t, Call("sem", "signal", TRUE))
    /\ UNCHANGED <<build, syst, stackv, bl, spsc, MSG_QUEUE, queue, fifo, evt, memv, cpu, kern,
                   sched, usize_bits, inp, snap, hist>>

sem_wait ==
    /\ build = "sync"
    /\ LET r == Semaphore_wait(sem)
       IN /\ sem' = r.flag
          /\ \E t \in SyncTasks : Called(t, Call("sem", "wait", r.res))
    /\ UNCHANGED <<build, syst, stackv, bl, spsc, MSG_QUEUE, queue, fifo, evt, memv, cpu, kern,
                   sched, usize_bits, inp, snap, hist>>

sem_is_set ==
    /\ build = "sync"
    /\ \E t \in SyncTasks : Called(t, Call("sem", "is_set", Semaphore_is_set(sem)))
    /\ UNCHANGED <<build, syst, stackv, bl, spsc, MSG_QUEUE, queue, fifo, sem, evt, memv, cpu,
                   kern, sched, usize_bits, inp, snap, hist>>

evt_set ==
    /\ build = "sync"
    /\ evt' = EventFlags_set(evt)
    /\ \E t \in SyncTasks : Called(t, Call("evt", "set", TRUE))
    /\ UNCHANGED <<build, syst, stackv, bl, spsc, MSG_QUEUE, queue, fifo, sem, memv, cpu, kern,
                   sched, usize_bits, inp, snap, hist>>

evt_clear ==
    /\ build = "sync"
    /\ evt' = EventFlags_clear(evt)
    /\ \E t \in SyncTasks : Called(t, Call("evt", "clear", FALSE))
    /\ UNCHANGED <<build, syst, stackv, bl, spsc, MSG_QUEUE, queue, fifo, sem, memv, cpu, kern,
                   sched, usize_bits, inp, snap, hist>>

evt_wait ==
    /\ build = "sync"
    /\ LET r == EventFlags_wait(evt)
       IN /\ evt' = r.flags
          /\ \E t \in SyncTasks : Called(t, Call("evt", "wait", r.res))
    /\ UNCHANGED <<build, syst, stackv, bl, spsc, MSG_QUEUE, queue, fifo, sem, memv, cpu, kern,
                   sched, usize_bits, inp, snap, hist>>

\* ------------------------------------------------------ memory crate: heap
\* memory/src/lib.rs memory_init, first statement: heap::init_heap(HEAP_START,
\* HEAP_SIZE). The second, mpu::setup_mpu(), is setup_mpu_write; there is no
\* third (stack initialisation is a TODO).
init_heap ==
    /\ build = "memory"
    /\ boot = <<>>
    /\ ~oom.running
    /\ ALLOCATOR' = [start |-> HEAP_START, size |-> HEAP_SIZE, used |-> 0]
    /\ boot' = <<"init_heap">>
    /\ sys' = SysNone
    /\ op' = "init_heap"
    /\ UNCHANGED <<build, devv, mpu, layout, OOM_RECORD, OOM_USER_HANDLER, oom, cpu, kern, sched,
                   usize_bits, inp, snap, hist>>

\* memory_init has returned and no allocation failure is being handled.
MemIdle ==
    /\ build = "memory"
    /\ ~oom.running
    /\ MpuDone

\* set_oom_handler.
set_oom_handler ==
    /\ MemIdle
    /\ ~OOM_USER_HANDLER
    /\ OOM_USER_HANDLER' = TRUE
    /\ sys' = SysNone
    /\ op' = "set_oom_handler"
    /\ UNCHANGED <<build, devv, mpu, ALLOCATOR, layout, OOM_RECORD, oom, boot, cpu, kern, sched,
                   usize_bits, inp, snap, hist>>

\* A block satisfies the request: the free bytes of the arena cover it.
Fits(a, l) == a.used + l.size <= a.size

\* An allocation through the global allocator (Box, Vec, ...): on failure the
\* alloc_error_handler is entered with the request's layout.
alloc ==
    /\ MemIdle
    /\ \E s \in AllocSizes, al \in Aligns :
          LET l == Layout(s, al) IN
          /\ layout' = l
          /\ IF Fits(ALLOCATOR, l)
             THEN /\ ALLOCATOR' = [ALLOCATOR EXCEPT !.used = @ + l.size]
                  /\ oom' = oom
             ELSE /\ ALLOCATOR' = ALLOCATOR
                  /\ oom' = [oom EXCEPT !.running = TRUE]
    /\ sys' = SysNone
    /\ op' = "alloc"
    /\ UNCHANGED <<build, devv, mpu, OOM_RECORD, OOM_USER_HANDLER, boot, cpu, kern, sched,
                   usize_bits, inp, snap, hist>>

\* A block is dropped.
dealloc ==
    /\ MemIdle
    /\ \E s \in AllocSizes :
          /\ s <= ALLOCATOR.used
          /\ ALLOCATOR' = [ALLOCATOR EXCEPT !.used = @ - s]
    /\ sys' = SysNone
    /\ op' = "dealloc"
    /\ UNCHANGED <<build, devv, mpu, layout, OOM_RECORD, OOM_USER_HANDLER, oom, boot, cpu, kern,
                   sched, usize_bits, inp, snap, hist>>

\* A record with the two sizes exchanged.
OomRecord_swapped(l) == [size |-> l.align, align |-> l.size, magic |-> OOM_MAGIC]

\* OomRecord { size: layout.size(), align: layout.align(), magic: 0x4F4F4D21 }.
OomRecord(l) == [size |-> l.size, align |-> l.align, magic |-> OOM_MAGIC]

\* A handler that writes the record before it masks interrupts.
alloc_error_handler_record_first(hook) ==
    <<"record", "disable">> \o (IF hook THEN <<"hook">> ELSE <<>>) \o <<"sys_reset">>

\* A handler that leaves interrupts enabled.
alloc_error_handler_nomask(hook) ==
    <<"record">> \o (IF hook THEN <<"hook">> ELSE <<>>) \o <<"sys_reset">>

\* alloc_error_handler as its sequence of steps: interrupt::disable(); the
\* OOM_RECORD write; cb(layout) if OOM_USER_HANDLER is Some; SCB::sys_reset().
\* (The feature-gated logging between the record and the hook changes no state.)
alloc_error_handler(hook) ==
    <<"disable", "record">> \o (IF hook THEN <<"hook">> ELSE <<>>) \o <<"sys_reset">>

\* The next step of the running handler. After sys_reset nothing runs.
alloc_error_handler_step ==
    /\ build = "memory"
    /\ oom.running
    /\ LET steps == alloc_error_handler(OOM_USER_HANDLER) IN
          /\ oom.pc < Len(steps)
          /\ LET s == steps[oom.pc + 1] IN
                /\ primask' = IF s = "disable" THEN TRUE ELSE primask
                /\ OOM_RECORD' = IF s = "record" THEN OomRecord(layout) ELSE OOM_RECORD
                /\ oom' = [oom EXCEPT !.pc = @ + 1, !.log = Append(@, s)]
                /\ op' = s
    /\ sys' = SysNone
    /\ UNCHANGED <<build, devv, mpu, ALLOCATOR, layout, OOM_USER_HANDLER, boot, regs, psp, mem,
                   control, pendsv, kern, sched, usize_bits, inp, snap, hist>>

\* An interrupt is taken: only while interrupts are not masked. The timer tick
\* that requests a schedule event and the PendSV exception that performs the
\* context switch enter this way.
interrupt ==
    /\ build = "memory"
    /\ ~primask
    /\ sys' = SysNone
    /\ op' = "interrupt"
    /\ UNCHANGED <<build, devv, memv, cpu, kern, sched, usize_bits, inp, snap, hist>>

\* ------------------------------------------------------------------ Next
Next ==
    \/ TaskCompute
    \/ kernel_start
    \/ schedule
    \/ Dcs_pick
    \/ Dcs_save
    \/ Dcs_restore
    \/ Scheduler_schedule
    \/ Dispatch
    \/ syscall_entry
    \/ Encode
    \/ setup_mpu_write
    \/ kernel_init_panic
    \/ kernel_init_systick
    \/ bootloader_init_systick
    \/ stack_init
    \/ task_write
    \/ stack_check
    \/ stack_check_all
    \/ stack_measure
    \/ schedule_event
    \/ bootloader_step
    \/ mq_enqueue
    \/ mq_dequeue
    \/ enq_check
    \/ enq_store_slot
    \/ enq_store_head
    \/ deq_check
    \/ deq_load
    \/ deq_store_tail
    \/ init_queue
    \/ send_message
    \/ receive_message
    \/ sem_signal
    \/ sem_wait
    \/ sem_is_set
    \/ evt_set
    \/ evt_clear
    \/ evt_wait
    \/ init_heap
    \/ set_oom_handler
    \/ alloc
    \/ dealloc
    \/ alloc_error_handler_step
    \/ interrupt

Spec == Init /\ [][Next]_vars

\* ================================================================ claims
Cur == IF build = "kernel" THEN CURRENT_INDEX ELSE sched.current
NTasks == IF build = "kernel" THEN len(TASKS) ELSE len(sched.tasks)
Scheduling == build \in {"kernel", "sched_ipc"}

\* C1: round-robin. Every schedule event (a do_context_switch run in the
\* kernel crate, a Scheduler::schedule call in scheduler_ipc) sets current to
\* (current + 1) mod N; N consecutive events from index 0 give 1, 2, ..., N-1, 0;
\* and in any N consecutive events every task is current exactly once.
C1_RoundRobin ==
    Scheduling =>
        /\ hist[Len(hist)] = Cur
        /\ \A i \in 1..(Len(hist) - 1) : hist[i + 1] = (hist[i] + 1) % NTasks
        /\ (Len(hist) = NTasks + 1 /\ hist[1] = 0) =>
              \A k \in 1..NTasks : hist[k + 1] = k % NTasks
        /\ Len(hist) = NTasks + 1 =>
              \A t \in 0..(NTasks - 1) :
                 Cardinality({k \in 2..(NTasks + 1) : hist[k] = t}) = 1

C1_Witness ==
    /\ build = "kernel"
    /\ NTasks = 3
    /\ hist = <<0, 1, 2, 0>>

\* C2: context round-trip. A task that is resumed has exactly the r4-r11 and
\* the stack pointer it had when it was suspended.
C2_RoundTrip ==
    (Scheduling /\ op \in {"restore", "Scheduler_schedule"} /\ snap[Cur] # NoSnap) =>
        /\ regs = snap[Cur].regs
        /\ psp = snap[Cur].psp

\* C3: context_switch is atomic. While a switch is in progress interrupts are
\* masked, and nothing but the switch's own steps happens between its start,
\* the save and the restore.
C3_Atomic ==
    (build = "kernel" /\ cs_pc \in {"picked", "saved"}) =>
        /\ primask
        /\ op \in {"pick", "save"}

\* C4: after a context switch the CPU's privilege bit and active stack match
\* the resumed task: a User task runs unprivileged on its own process stack, a
\* Kernel task runs privileged.
C4_PrivilegeMatches ==
    (build = "kernel" /\ op = "restore") =>
        LET t == TASKS[CURRENT_INDEX] IN
        /\ t.privilege = USER =>
              /\ control.npriv = 1
              /\ control.spsel = 1
              /\ psp > StackBase(CURRENT_INDEX) /\ psp <= StackTop(CURRENT_INDEX)
        /\ t.privilege = KERNEL => control.npriv = 0

\* C5 as stated: a schedule() call, of either scheduler, changes neither the
\* current index nor any task's saved state.
C5_Deferred ==
    [][op' \in {"schedule", "Scheduler_schedule"} =>
          /\ CURRENT_INDEX' = CURRENT_INDEX
          /\ TASKS' = TASKS
          /\ sched' = sched]_vars

\* C5 as amended: the kernel crate's schedule() only sets the PendSV pending
\* bit and changes neither the current index, the task table nor the CPU
\* context; the index and the task table change only inside do_context_switch;
\* Scheduler::schedule of scheduler_ipc switches inline, within the call.
C5_KernelDeferred ==
    [][/\ op' = "schedule" =>
             /\ pendsv'
             /\ UNCHANGED <<CURRENT_INDEX, TASKS, regs, psp, mem, cs_pc>>
       /\ (build = "kernel" /\ CURRENT_INDEX' # CURRENT_INDEX) => op' = "pick"
       /\ (build = "kernel" /\ TASKS' # TASKS) => op' = "save"
       /\ op' = "Scheduler_schedule" =>
             sched'.current = (sched.current + 1) % len(sched.tasks)]_vars

C5_Witness ==
    /\ build = "kernel"
    /\ op = "schedule"
    /\ pendsv
    /\ cs_pc = "idle"
    /\ CURRENT_INDEX = 1

\* C6: the context a syscall handler receives is the current task's: its uid
\* is the id of the task that made the call.
C6_ContextOfCurrentTask ==
    (build = "kernel" /\ op = "syscall_entry" /\ sys.handler # "none") =>
        sys.ctx.uid = sys.caller

\* C7: capability enforcement. GetTime without SYS_TIME is PermissionDenied and
\* with it is Ok; SendMessage without SEND_MESSAGE is PermissionDenied and
\* nothing of its body after the capability check runs.
C7_CapabilityEnforcement ==
    op = "dispatch" =>
        /\ (sys.id = "GetTime" /\ sys.ctx.capabilities \in {0, 2}) =>
              sys.res = Err(PermissionDenied)
        /\ (sys.id = "GetTime" /\ sys.ctx.capabilities \in {1, 3}) => sys.res.ok
        /\ (sys.id = "SendMessage" /\ sys.ctx.capabilities \in {0, 1}) =>
              /\ sys.res = Err(PermissionDenied)
              /\ sys.steps = <<"cap">>
              /\ sys.copied = NoCopy

C7_Witness ==
    /\ op = "dispatch"
    /\ sys.id = "SendMessage"
    /\ sys.ctx.capabilities = 1
    /\ sys.args.nargs = 3
    /\ sys.args.args[1] = L(REGION0_BASE)
    /\ sys.args.args[2] = L(10)
    /\ sys.res = Err(PermissionDenied)

\* C8: an identifier other than 1 and 2 makes syscall_entry return the encoding
\* of Err(Invalid) (top bit set, low 31 bits = 1) with no handler invoked;
\* 1 is routed to GetTime and 2 to SendMessage.
C8_UnknownIdInvalid ==
    op = "syscall_entry" =>
        /\ sys.raw_id \notin {W(1), W(2)} =>
              /\ sys.ret = [top |-> 1, low |-> 1]
              /\ sys.handler = "none"
              /\ sys.steps = <<>>
        /\ sys.raw_id = W(1) => sys.handler = "GetTime"
        /\ sys.raw_id = W(2) => sys.handler = "SendMessage"

C8_Witness ==
    /\ op = "syscall_entry"
    /\ sys.raw_id = [top |-> 1, low |-> 1]
    /\ sys.ret = [top |-> 1, low |-> 1]
    /\ sys.handler = "none"

\* C9: buffer bound. With SEND_MESSAGE held and the three arguments present, a
\* length of 0 or above 4096 is TooLarge, and a length in 1..4096 with a valid
\* source range returns Ok(0).
C9_BufferBound ==
    (/\ op = "dispatch"
     /\ sys.id = "SendMessage"
     /\ sys.ctx.capabilities \in {2, 3}
     /\ sys.args.nargs >= 3) =>
        LET ptr == sys.args.args[1]
            n == sys.args.args[2]
            big == n.hi > 0 \/ n.lo.top = 1 \/ n.lo.low > 4096
            zero == n.hi = 0 /\ n.lo.top = 0 /\ n.lo.low = 0
        IN /\ (zero \/ big) => sys.res = Err(TooLarge)
           /\ (~zero /\ ~big /\ InRegion0(ptr, n)) =>
                 (sys.res = Ok(W(0)) /\ sys.outcome = "returned")

\* C10: SendMessage validates the source range before it copies: a range not
\* wholly inside the caller's accessible memory gives Err(BadAddress) and no
\* byte of it is copied.
C10_BadAddress ==
    (/\ op \in {"dispatch", "syscall_entry"}
     /\ sys.handler = "SendMessage"
     /\ sys.res \notin {Err(PermissionDenied), Err(Invalid), Err(TooLarge)}
     /\ ~InRegion0(as_usize(sys.args.args[1], usize_bits),
                   as_usize(sys.args.args[2], usize_bits))) =>
        /\ sys.res = Err(BadAddress)
        /\ sys.copied = NoCopy
        /\ sys.outcome = "returned"

\* C11: result encoding. For every v < 2^31 the word encode(Ok(v)) has the top
\* bit clear and v in its low 31 bits; for every error kind e the word
\* encode(Err(e)) has the top bit set and e's numeric code in its low 31 bits;
\* so outcome and payload are read back from the word, and two different error
\* kinds never encode to the same word.
C11_EncodeRoundTrip ==
    /\ op = "encode" =>
          /\ (sys.res.ok /\ sys.res.val.top = 0) =>
                /\ sys.ret.top = 0
                /\ sys.ret.low = sys.res.val.low
          /\ ~sys.res.ok =>
                /\ sys.ret.top = 1
                /\ sys.ret.low = sys.res.err
    /\ \A e1, e2 \in SyscallErrors :
          e1 # e2 => encode_syscall_result(Err(e1)) # encode_syscall_result(Err(e2))

C11_Witness ==
    /\ op = "encode"
    /\ sys.res = Err(Unknown)
    /\ sys.ret = [top |-> 1, low |-> 65535]

\* C12: every successful handler result is below 2^31, so the word returned by
\* syscall_entry has its top bit set exactly when the call failed.
C12_SuccessFits31 ==
    /\ op \in {"dispatch", "syscall_entry"} =>
          ((sys.handler # "none" /\ sys.res.ok) => sys.res.val.top = 0)
    /\ op = "syscall_entry" =>
          (sys.ret.top = 1 <=> (sys.handler = "none" \/ ~sys.res.ok))

C12_Witness ==
    /\ build = "kernel"
    /\ op = "syscall_entry"
    /\ sys.handler = "GetTime"
    /\ sys.res.ok
    /\ sys.ret = [top |-> 0, low |-> 1700000000]

C14_HandlerOrder ==
    [][LET full == IF OOM_USER_HANDLER'
                   THEN <<"disable", "record", "hook", "sys_reset">>
                   ELSE <<"disable", "record", "sys_reset">>
       IN /\ oom'.running =>
                /\ oom'.pc = Len(oom'.log)
                /\ oom'.pc <= Len(full)
                /\ oom'.log = SubSeq(full, 1, oom'.pc)
                /\ oom'.pc > 0 => (primask' /\ op' # "interrupt")
          /\ oom.running => (ALLOCATOR' = ALLOCATOR /\ OOM_USER_HANDLER' = OOM_USER_HANDLER)
          /\ (oom.running /\ OOM_RECORD' # OOM_RECORD) => op' = "record"
          /\ ~oom'.running => oom'.log = <<>>]_vars

C14_Witness ==
    /\ oom.running
    /\ OOM_USER_HANDLER
    /\ oom.log = <<"disable", "record", "hook", "sys_reset">>
    /\ primask

\* C15: a failed allocation writes exactly one OomRecord, with the request's
\* size and alignment and the marker 0x4F4F4D21, and is followed by exactly one
\* reset; with a heap of 16384 bytes a request of 20000 bytes fails.
C15_OomDeterminism ==
    LET Count(e) == Cardinality({i \in 1..Len(oom.log) : oom.log[i] = e})
        recorded == Count("record") = 1
        finished == oom.running /\ Count("sys_reset") = 1
    IN /\ (op = "alloc" /\ ALLOCATOR.size = 16384 /\ layout.size = 20000) =>
             (oom.running /\ ALLOCATOR.used <= 16384)
       /\ Count("record") <= 1
       /\ Count("sys_reset") <= 1
       /\ recorded =>
             OOM_RECORD = [size |-> layout.size, align |-> layout.align,
                           magic |-> 1330597153]
       /\ ~recorded => OOM_RECORD = [size |-> 0, align |-> 0, magic |-> 0]
       /\ finished =>
             /\ recorded
             /\ oom.log[Len(oom.log)] = "sys_reset"
             /\ ~ENABLED alloc_error_handler_step
       /\ (oom.running /\ ~finished) => ENABLED alloc_error_handler_step

C15_Witness ==
    /\ ALLOCATOR.size = 16384
    /\ layout = [size |-> 20000, align |-> 8]
    /\ OOM_RECORD = [size |-> 20000, align |-> 8, magic |-> 1330597153]
    /\ oom.log = <<"disable", "record", "sys_reset">>

\* C16: region configuration is bracketed. The first write of the configurator
\* disables the MPU; every region's base and attributes are then written to its
\* slot; no region register (RNR, RBAR, RASR) is written while the MPU is
\* enabled; and when the configurator completes on a part that has an MPU the
\* MPU is enabled with ENABLE | PRIVDEFENA. Both configurators: memory/src/mpu.rs (4 regions) and
\* kernel/src/init.rs (1 region).
C16_Bracketed ==
    [][/\ (mpu'.pc = mpu.pc + 1 /\ mpu'.last.reg \in {"rnr", "rbar", "rasr"}) =>
             (mpu.ctrl = 0 /\ mpu'.ctrl = 0)
       /\ (mpu.pc = 0 /\ mpu'.pc = 1) =>
             (mpu'.last = [reg |-> "ctrl", val |-> 0] /\ mpu'.ctrl = 0)
       /\ mpu' # mpu => (op' = "mpu_write" /\ mpu'.pc = mpu.pc + 1)
       /\ (mpu' # mpu /\ mpu.type # 0 /\ MpuDone') =>
             /\ mpu'.ctrl = 5
             /\ build = "memory" =>
                   /\ mpu'.rbar[0] = 134217728 /\ Bits(mpu'.rasr[0], 1, 5) = 5
                   /\ mpu'.rbar[1] = 536870912 /\ Bits(mpu'.rasr[1], 1, 5) = 5
                   /\ mpu'.rbar[2] = 536936448 /\ Bits(mpu'.rasr[2], 1, 5) = 4
                   /\ mpu'.rbar[3] = 537001984 /\ Bits(mpu'.rasr[3], 1, 5) = 4
                   /\ \A i \in 0..3 : Bits(mpu'.rasr[i], 0, 1) = 1
             /\ build = "kernel" =>
                   /\ mpu'.rbar[0] = 536870912 /\ Bits(mpu'.rasr[0], 1, 5) = 16
                   /\ Bits(mpu'.rasr[0], 0, 1) = 1]_vars

C16_Witness ==
    /\ build = "memory"
    /\ op = "mpu_write"
    /\ mpu.pc = 15
    /\ mpu.ctrl = 5
    /\ mpu.rnr = 3
    /\ mpu.rbar[3] = 537001984
    /\ mpu.shcsr = 65536

\* C17: regions are installed before any User task executes. Whenever the CPU
\* is in unprivileged thread mode the region configuration has completed, with
\* protection enabled, before the switch to unprivileged mode; the
\* configuration is performed once; and no schedule request, context switch
\* step, task computation or syscall changes an MPU register.
C17_RegionsBeforeUser ==
    [][/\ (build = "kernel" /\ control'.npriv = 1) =>
             /\ mpu'.last = [reg |-> "ctrl", val |-> 5]
             /\ mpu'.ctrl = 5
             /\ Len(boot') >= 2 /\ boot'[1] = "setup_mpu" /\ boot'[2] = "unprivileged"
       /\ (build = "kernel" /\ kstate = "running") => mpu' = mpu
       /\ mpu' # mpu => ~(mpu.pc > 0 /\ MpuDone)
       /\ op' \in {"kernel_start", "schedule", "pick", "save", "restore", "compute",
                   "syscall_entry", "Scheduler_schedule"} => mpu' = mpu]_vars

C17_Witness ==
    /\ build = "kernel"
    /\ op = "restore"
    /\ CURRENT_INDEX = 1
    /\ control.npriv = 1
    /\ mpu.ctrl = 5
    /\ mpu.rbar[0] = 536870912
    /\ boot = <<"setup_mpu", "unprivileged", "schedule">>

\* C18: boot ordering. The stack guard initialisation and the region install
\* both complete before the heap allocator is initialised; the heap is
\* initialised exactly once, before the scheduler is started and before any
\* allocation; the scheduler is started only after all three.
C18_BootOrder ==
    LET At(e) == {i \in 1..Len(boot) : boot[i] = e}
        Did(e) == At(e) # {}
        Before(e, f) == \E i \in At(e) : \A j \in At(f) : i < j
    IN /\ Cardinality(At("init_heap")) <= 1
       /\ Did("init_heap") =>
             /\ Before("init_task_stack", "init_heap")
             /\ Before("setup_mpu", "init_heap")
       /\ op = "alloc" => Did("init_heap")
       /\ Did("schedule") =>
             /\ Before("init_task_stack", "schedule")
             /\ Before("setup_mpu", "schedule")
             /\ Before("init_heap", "schedule")

\* ---- the installed regions, read back from the MPU registers
XN(v) == Bits(v, 28, 1)
AP(v) == Bits(v, 24, 3)
RegionEnabled(i) == Bits(mpu.rasr[i], 0, 1) = 1
\* A region of size field s covers 2^(s+1) bytes from its base aligned down to
\* that size.
RegionSize(i) == 2^(Bits(mpu.rasr[i], 1, 5) + 1)
RegionLow(i) == mpu.rbar[i] - (mpu.rbar[i] % RegionSize(i))
RegionHigh(i) == RegionLow(i) + RegionSize(i) - 1
Covers(i, a) == RegionEnabled(i) /\ RegionLow(i) <= a /\ a <= RegionHigh(i)
Within(j, i) == RegionLow(i) <= RegionLow(j) /\ RegionHigh(j) <= RegionHigh(i)
Overlap(i, j) == RegionLow(i) <= RegionHigh(j) /\ RegionLow(j) <= RegionHigh(i)
\* The region that decides an access to address a: the highest-numbered enabled
\* region that covers it.
Deciding(a) == CHOOSE i \in Slots : Covers(i, a) /\ \A j \in Slots : Covers(j, a) => j <= i
MemInstalled == build = "memory" /\ mpu.type # 0 /\ MpuDone

\* C19: in the region set installed by memory/src/mpu.rs, the kernel-code
\* region (slot 0) is execute-allowed (XN = 0) and read-only for privileged
\* code (AP = 0b101, 0b110 or 0b111), and the kernel-stack region (slot 1) and
\* the task-stack regions (slots 2, 3) are non-executable (XN = 1), in every
\* state after the configuration.
C19_RegionAttributes ==
    MemInstalled =>
        /\ \A i \in 0..3 : RegionEnabled(i)
        /\ mpu.rbar[0] = 134217728
        /\ XN(mpu.rasr[0]) = 0
        /\ AP(mpu.rasr[0]) \in {5, 6, 7}
        /\ \A i \in 1..3 : XN(mpu.rasr[i]) = 1

C19_Witness ==
    /\ MemInstalled
    /\ op = "alloc"
    /\ mpu.rasr[0] = 100663307
    /\ mpu.rasr[2] = 318767113

C21_FailClosed ==
    /\ (\E i \in 1..Len(boot) : boot[i] = "setup_mpu") =>
          (Bits(mpu.ctrl, 0, 1) = 1 /\ RegionEnabled(0))
    /\ control.npriv = 1 => (Bits(mpu.ctrl, 0, 1) = 1 /\ RegionEnabled(0))
    /\ kstate = "panic" => (control.npriv = 0 /\ mpu.pc = 0 /\ boot = <<>>)

\* C22: a tick count that does not fit the 24-bit SysTick reload is detected
\* at init. init_systick(ticks) with ticks = 0 or ticks > 0x00FFFFFF returns
\* the error and writes no SysTick register, and kernel_init panics with the
\* CPU still privileged; otherwise it programmes reload = ticks - 1 and
\* enables the timer. Whichever initialiser ran, an enabled timer has a reload
\* value in [0, 2^24), and a running kernel has the timer enabled.
C22_SysTickRange ==
    /\ sys.kind = "init_systick" =>
          IF sys.ticks = 0 \/ sys.ticks > 16777215
          THEN /\ ~sys.ok
               /\ syst = [csr |-> 0, rvr |-> 0, cvr |-> 0, writes |-> 0]
               /\ kstate = "panic"
               /\ control.npriv = 0
          ELSE /\ sys.ok
               /\ syst.rvr = sys.ticks - 1
               /\ syst.cvr = 0
               /\ syst.csr = 7
               /\ kstate = "reset"
    /\ Bits(syst.csr, 0, 1) = 1 => (syst.rvr >= 0 /\ syst.rvr < 2^24)
    /\ kstate = "panic" => Bits(syst.csr, 0, 1) = 0
    /\ kstate = "running" => (syst.csr = 7 /\ syst.rvr = 167999)

C22_Witness ==
    /\ build = "systick"
    /\ op = "init_systick"
    /\ sys.ticks = 16777216
    /\ ~sys.ok
    /\ kstate = "panic"
    /\ syst.writes = 0

\* C23: canary detection. Immediately after init_task_stack the whole stack
\* holds the watermark byte 0xA5 except its lowest 8 bytes, which hold the
\* canary, and check_canary succeeds; check_canary reports corruption if and
\* only if one of the lowest 8 bytes differs from the canary; check_canary_all
\* reports corruption if and only if either stack's canary is corrupted.
C23_CanaryDetection ==
    LET Canary == <<222, 173, 190, 239, 202, 254, 186, 190>>
        Corrupted(stack) == \E i \in 1..8 : stack[i] # Canary[i]
        Stack(k) == IF k = 1 THEN TASK_STACK1 ELSE TASK_STACK2
    IN /\ sys.kind = "init_task_stack" =>
             /\ \A i \in 1..Len(Stack(sys.k)) :
                   Stack(sys.k)[i] = IF i <= 8 THEN Canary[i] ELSE 165
             /\ check_canary(Stack(sys.k)) = "ok"
       /\ sys.kind = "check_canary" =>
             (sys.result = "panic" <=> Corrupted(Stack(sys.k)))
       /\ sys.kind = "check_canary_all" =>
             (sys.result = "panic" <=> (Corrupted(TASK_STACK1) \/ Corrupted(TASK_STACK2)))
       /\ (sys.kind \in {"check_canary", "check_canary_all"} /\ sys.result = "panic") =>
             kstate = "panic"

\* Both stacks initialised, byte 0 of the first overwritten with 0x00, a byte of
\* the second's canary overwritten with its own value: check_canary_all panics.
C23_Witness ==
    /\ sys = [kind |-> "check_canary_all", result |-> "panic"]
    /\ TASK_STACK1[1] = 0
    /\ TASK_STACK2 = <<222, 173, 190, 239, 202, 254, 186, 190, 165, 165>>
    /\ stack_writes = 2

\* C24: used_stack_bytes(stack) is the stack length minus the number of
\* contiguous watermark bytes counted from the top (highest address) downward
\* up to the first other byte, and free_stack_bytes + used_stack_bytes is the
\* stack length.
C24_UsedBytes ==
    sys.kind = "stack_bytes" =>
        LET stack == IF sys.k = 1 THEN TASK_STACK1 ELSE TASK_STACK2
            n == Len(stack)
            Run(c) == /\ \A i \in (n - c + 1)..n : stack[i] = 165
                      /\ c < n => stack[n - c] # 165
        IN /\ \E c \in 0..n : Run(c) /\ sys.used = n - c
           /\ sys.free + sys.used = n
           /\ sys.used \in 0..n

\* A non-watermark byte below a watermark byte that is on top of it.
C24_Witness ==
    /\ build = "stack"
    /\ sys.kind = "stack_bytes"
    /\ sys.k = 1
    /\ TASK_STACK1[9] = 0
    /\ TASK_STACK1[10] = 165
    /\ sys.used = 9
    /\ sys.free = 1

C26_Fifo ==
    /\ build = "msgq" =>
          /\ Len(fifo) = (queue.head + SIZE - queue.tail) % SIZE
          /\ \A i \in 1..Len(fifo) : fifo[i] = queue.buffer[(queue.tail + i - 1) % SIZE]
    /\ sys.kind = "dequeue" =>
          /\ sys.res = sys.oldest
          /\ ~sys.res.some => (queue = sys.before /\ queue.head = queue.tail /\ fifo = <<>>)
    /\ sys.kind = "receive_message" =>
          IF sys.before = <<>>
          THEN ~sys.res.some /\ MSG_QUEUE = <<>>
          ELSE /\ sys.res.some
               /\ sys.res.val = sys.before[1]
               /\ MSG_QUEUE = Tail(sys.before)

\* Two different messages were enqueued; the dequeue returned the first, the
\* second is still queued, and the indices have wrapped.
C26_Witness ==
    /\ build = "msgq"
    /\ sys.kind = "dequeue"
    /\ sys.res.some
    /\ sys.res.val.data = <<1, 2, 3, 4>>
    /\ Len(fifo) = 1
    /\ fifo[1].data = <<9, 8, 7, 6>>
    /\ queue.head < queue.tail

\* C27: the global kernel message queue has capacity 16. A send on a queue
\* that holds fewer than 16 messages returns Ok(()) and appends the message (so
\* from an empty queue with no receives the first 16 sends succeed); a send
\* returns Err(()) only on a queue holding 16 messages, and leaves the queued
\* messages unchanged.
C27_Capacity16 ==
    sys.kind = "send_message" =>
        /\ Len(sys.before) < 16 =>
              (sys.res = "Ok" /\ MSG_QUEUE = Append(sys.before, sys.msg))
        /\ sys.res = "Err" => (Len(sys.before) = 16 /\ MSG_QUEUE = sys.before)

\* C28: a MessageQueue<SIZE, MSG_SIZE> can store SIZE messages. An enqueue on
\* a queue that holds fewer than SIZE messages returns Ok (so from an empty
\* queue with no dequeues the first SIZE enqueues succeed); an enqueue returns
\* Err only on a full queue and leaves head, tail and the stored messages
\* unchanged; head and tail stay in [0, SIZE).
C28_StoresSize ==
    /\ build = "msgq" => (queue.head \in 0..(SIZE - 1) /\ queue.tail \in 0..(SIZE - 1))
    /\ sys.kind = "enqueue" =>
          /\ sys.stored < SIZE => sys.res = "Ok"
          /\ sys.res = "Err" => queue = sys.before

\* C29: Semaphore and EventFlags are consume-once binary flags. A wait
\* returns true exactly when the last call before it that writes the flag was a
\* signal / set (or the construction with true), and false when it was a wait,
\* a clear or the construction with false: so at most one wait returns true per
\* signal, and several signals before a wait count once. is_set returns the
\* flag and does not change it. The calls come from any task in any order.
C29_ConsumeOnce ==
    build = "sync" =>
        LET n == Len(calls)
            Writers(obj, m) == {i \in 1..m : calls[i].obj = obj /\ calls[i].kind # "is_set"}
            Last(S) == CHOOSE i \in S : \A j \in S : j <= i
            \* the flag as the call at index i left it
            Left(i) == CASE calls[i].kind \in {"signal", "set"} -> TRUE
                         [] calls[i].kind \in {"wait", "clear"} -> FALSE
                         [] calls[i].kind = "new" -> calls[i].res
        IN /\ \A i \in 2..n :
                 (calls[i].kind \in {"wait", "is_set"}
                     /\ Writers(calls[i].obj, i - 1) # {}) =>
                        calls[i].res = Left(Last(Writers(calls[i].obj, i - 1)))
           /\ Writers("sem", n) # {} => sem = Left(Last(Writers("sem", n)))
           /\ Writers("evt", n) # {} => evt = Left(Last(Writers("evt", n)))

\* Two signals, then a wait by one task that returns true, then a wait by the
\* other that returns false.
C29_Witness ==
    /\ build = "sync"
    /\ calls = <<Call("sem", "signal", TRUE), Call("sem", "signal", TRUE),
                 Call("sem", "wait", TRUE), Call("sem", "wait", FALSE)>>
    /\ sys.task = 2
    /\ sem = FALSE

\* C30 as stated: within one schedule step, next = (current + 1) mod
\* task_count is computed, context_switch is invoked with the task at the old
\* current index as outgoing and the task at next as incoming, and only then
\* current is set to next: while context_switch runs the current index still
\* names the outgoing task.
C30_IndexAfterSwitch ==
    /\ (build = "kernel" /\ cs_pc \in {"picked", "saved"}) => CURRENT_INDEX = cs_cur
    /\ op = "Scheduler_schedule" =>
          /\ sys.outgoing = hist[Len(hist) - 1]
          /\ sys.incoming = (sys.outgoing + 1) % len(sched.tasks)
          /\ sched.current = sys.incoming

\* C30, amended: Scheduler::schedule (scheduler_ipc) computes next, invokes
\* context_switch(tasks[current], tasks[next]) and then sets current = next.
\* The kernel's do_context_switch sets CURRENT_INDEX to (CURRENT_INDEX + 1) mod
\* task_count first and then invokes context_switch with the task at the old
\* index as outgoing and the task at the new index as incoming: while
\* context_switch runs CURRENT_INDEX names the incoming task.
C30_SwitchOrder ==
    /\ (build = "kernel" /\ cs_pc \in {"picked", "saved"}) =>
          CURRENT_INDEX = (cs_cur + 1) % len(TASKS)
    /\ op = "save" =>
          /\ cs_pc = "saved"
          /\ TASKS[cs_cur].stack_pointer = psp - FrameWords
          /\ snap[cs_cur] = [regs |-> regs, psp |-> psp]
    /\ op = "restore" =>
          /\ CURRENT_INDEX = (cs_cur + 1) % len(TASKS)
          /\ psp = TASKS[CURRENT_INDEX].stack_pointer + FrameWords
    /\ op = "Scheduler_schedule" =>
          /\ sys.outgoing = hist[Len(hist) - 1]
          /\ sys.incoming = (sys.outgoing + 1) % len(sched.tasks)
          /\ sched.current = sys.incoming
          /\ sched.tasks[sys.outgoing].stack_pointer = snap[sys.outgoing].psp

C30_Witness ==
    /\ build = "kernel"
    /\ op = "save"
    /\ len(TASKS) = 3
    /\ cs_cur = 2
    /\ CURRENT_INDEX = 0
    /\ cs_pc = "saved"

\* C31: the scheduler's current index is 0 initially and lies in
\* [0, task_count) in every reachable state, for every task_count >= 1; the
\* scheduler has no terminal state: a schedule request is enabled in every
\* state of the running kernel scheduler, a pending request can always be
\* served, and Scheduler::schedule is always enabled.
C31_IndexInRange ==
    Scheduling =>
        /\ NTasks >= 1
        /\ Cur \in 0..(NTasks - 1)
        /\ op = "init" => Cur = 0
        /\ (build = "kernel" /\ kstate = "running") =>
              /\ ENABLED schedule
              /\ (pendsv \/ cs_pc # "idle") =>
                    ENABLED (Dcs_pick \/ Dcs_save \/ Dcs_restore)
        /\ build = "sched_ipc" => ENABLED Scheduler_schedule

\* The index has wrapped from the last task back to task 0.
C31_Witness ==
    /\ build = "kernel"
    /\ NTasks = MaxTasks
    /\ Len(hist) = NTasks + 1
    /\ hist[NTasks] = NTasks - 1
    /\ Cur = 0
    /\ op = "restore"

\* The descriptors of table t2 equal those of t1 except for the saved stack
\* pointer of task `current`.
OnlySavedSp(t1, t2, current) ==
    /\ DOMAIN t2 = DOMAIN t1
    /\ \A i \in DOMAIN t1 :
          /\ t2[i].id = t1[i].id
          /\ t2[i].privilege = t1[i].privilege
          /\ i # current => t2[i] = t1[i]

\* C32 as stated: the task table is changed only by the context switch;
\* context_switch(current, next) writes current's saved stack pointer and
\* leaves next's descriptor and every other descriptor unchanged; the number
\* of tasks, the ids and the privileges never change.
C32_NextUnchanged ==
    [][/\ TASKS' # TASKS => op' = "save"
       /\ sched'.tasks # sched.tasks => op' = "Scheduler_schedule"
       /\ op' = "save" =>
             /\ OnlySavedSp(TASKS, TASKS', cs_cur)
             /\ TASKS'[cs_cur].stack_pointer = psp - FrameWords
             /\ TASKS'[CURRENT_INDEX] = TASKS[CURRENT_INDEX]
       /\ op' = "Scheduler_schedule" =>
             /\ OnlySavedSp(sched.tasks, sched'.tasks, sched.current)
             /\ sched'.tasks[sched.current].stack_pointer = psp
             /\ sched'.tasks[sched'.current] = sched.tasks[sched'.current]]_vars

\* C32 as amended: the task table is changed only by the context switch;
\* context_switch(current, next) writes current's saved stack pointer and
\* leaves the descriptor of every task other than current unchanged (next is
\* current itself when there is a single task); the number of tasks, the ids
\* and the privileges never change.
C32_TaskTableFrame ==
    [][/\ TASKS' # TASKS => op' = "save"
       /\ sched'.tasks # sched.tasks => op' = "Scheduler_schedule"
       /\ op' = "save" =>
             /\ OnlySavedSp(TASKS, TASKS', cs_cur)
             /\ TASKS'[cs_cur].stack_pointer = psp - FrameWords
       /\ op' = "Scheduler_schedule" =>
             /\ OnlySavedSp(sched.tasks, sched'.tasks, sched.current)
             /\ sched'.tasks[sched.current].stack_pointer = psp]_vars

\* A switch between two of three tasks has stored the outgoing task's stack
\* pointer and left the incoming task's descriptor as init_tasks made it.
C32_Witness ==
    /\ build = "sched_ipc"
    /\ op = "Scheduler_schedule"
    /\ NTasks = MaxTasks
    /\ sys.outgoing # sys.incoming
    /\ sched.tasks[sys.outgoing].stack_pointer = psp
    /\ sched.tasks[sys.incoming] = init_tasks(NTasks)[sys.incoming]

\* C37: scheduling requests coalesce. schedule() only sets the single pending
\* bit, so a request made while one is pending changes nothing; the context
\* switch starts only when the bit is set, clears it, and advances current by
\* exactly one position however many requests were made; current never moves
\* without a pending request.
C37_Coalesce ==
    [][/\ op' = "schedule" =>
             /\ pendsv'
             /\ pendsv => (cpu' = cpu /\ kern' = kern)
       /\ op' = "pick" =>
             /\ pendsv /\ ~pendsv'
             /\ CURRENT_INDEX' = (CURRENT_INDEX + 1) % len(TASKS)
       /\ (build = "kernel" /\ CURRENT_INDEX' # CURRENT_INDEX) => op' = "pick"
       /\ (pendsv /\ ~pendsv') => op' = "pick"]_vars

\* A context switch that serves a request made while another was pending.
C37_Witness ==
    /\ build = "kernel"
    /\ op = "pick"
    /\ sys.coalesced
    /\ len(TASKS) = MaxTasks
    /\ CURRENT_INDEX = (cs_cur + 1) % len(TASKS)
    /\ ~pendsv

\* The positions of step `name` in the steps a handler executed.
StepsAt(steps, name) == {i \in 1..Len(steps) : steps[i] = name}

\* C33: in SendMessage the copy from task memory happens at most once per
\* call, copies exactly the length that passed the length check (1..4096
\* bytes), and happens only after the capability check, the argument-count
\* check and the length check have passed; a call that fails one of these
\* checks reads no byte of task memory.
C33_SingleBoundedCopy ==
    (op \in {"dispatch", "syscall_entry"} /\ sys.handler = "SendMessage") =>
        LET copies == StepsAt(sys.steps, "copy")
            n == as_usize(sys.args.args[2], usize_bits)
            passed == /\ HasCap(sys.ctx.capabilities, SEND_MESSAGE)
                      /\ sys.args.nargs >= 3
                      /\ ~IsZero(n)
                      /\ ~GreaterThan(n, MaxMessageLen)
        IN /\ Cardinality(copies) <= 1
           /\ copies # {} <=> passed
           /\ copies # {} =>
                 /\ sys.copied.from = as_usize(sys.args.args[1], usize_bits)
                 /\ sys.copied.n = n
                 /\ n.hi = 0 /\ n.lo.top = 0 /\ n.lo.low \in 1..MaxMessageLen
                 /\ \A c \in copies :
                       \A chk \in {"cap", "arg0", "arg1", "arg2", "len"} :
                          \E i \in StepsAt(sys.steps, chk) : i < c
           /\ copies = {} => sys.copied = NoCopy

\* A call that passed every check and copied the largest message.
C33_Witness ==
    /\ op = "dispatch"
    /\ sys.handler = "SendMessage"
    /\ StepsAt(sys.steps, "copy") = {6}
    /\ sys.copied = [from |-> L(REGION0_BASE), n |-> L(MaxMessageLen)]

\* C38: SendMessage reports one error with a fixed precedence: without the
\* SEND_MESSAGE capability PermissionDenied; otherwise with fewer than 3
\* arguments Invalid; otherwise with length 0 or above 4096 TooLarge, before
\* the pointer is examined; otherwise BadAddress if the copy fails; otherwise
\* Unknown if the IPC send fails; otherwise Ok(0).
C38_ErrorPrecedence ==
    (op \in {"dispatch", "syscall_entry"} /\ sys.handler = "SendMessage") =>
        LET ptr == sys.args.args[1]
            n == sys.args.args[2]
            dest == sys.args.args[3]
        IN /\ sys.res =
                 IF ~HasCap(sys.ctx.capabilities, SEND_MESSAGE) THEN Err(PermissionDenied)
                 ELSE IF sys.args.nargs < 3 THEN Err(Invalid)
                 ELSE IF IsZero(n) \/ GreaterThan(n, MaxMessageLen) THEN Err(TooLarge)
                 ELSE IF ~copy_from_user(ptr, n).res.ok THEN Err(BadAddress)
                 ELSE IF ~kernel_ipc_send(dest, n).ok THEN Err(Unknown)
                 ELSE Ok(W(0))
           /\ sys.res = Err(TooLarge) => sys.copied = NoCopy

\* C34: heap exhaustion is terminal. Once the OOM handler has masked
\* interrupts they stay masked until the reset; from then on only the handler's
\* own steps run: no interrupt (schedule event, context switch) is taken, the
\* code that requested the allocation does not continue (no allocation, release
\* or registration follows, so the request is not retried), and after the reset
\* request the handler has no further step.
C34_OomTerminal ==
    (build = "memory" /\ oom.running /\ oom.pc > 0) =>
        /\ primask
        /\ op \in {"disable", "record", "hook", "sys_reset"}
        /\ oom.log[1] = "disable"
        /\ ~ENABLED interrupt
        /\ ~ENABLED (alloc \/ dealloc \/ set_oom_handler \/ init_heap \/ setup_mpu_write)
        /\ oom.log[Len(oom.log)] = "sys_reset" => ~ENABLED Next
        /\ oom.log[Len(oom.log)] # "sys_reset" => ENABLED alloc_error_handler_step

\* The handler has run to the reset after a failed allocation from a heap
\* that had served earlier requests.
C34_Witness ==
    /\ build = "memory"
    /\ oom.running
    /\ ~OOM_USER_HANDLER
    /\ oom.log = <<"disable", "record", "sys_reset">>
    /\ ALLOCATOR.used > 0
    /\ primask

\* The ARMv7-M meaning of the RASR access-permission field: 0b001 and 0b101
\* give unprivileged code no access, 0b010, 0b110 and 0b111 read-only access,
\* 0b011 read-write access.
UnprivRead(ap) == ap \in {2, 3, 6, 7}
UnprivWrite(ap) == ap = 3
PrivOnly(ap) == ap \in {1, 5}

\* C36: in the installed region set the kernel-stack region (slot 1) has an
\* access-permission encoding that allows privileged access only and differs
\* from that of the two task-stack regions (slots 2, 3), which allow
\* unprivileged read-write; an unprivileged access is granted in the task-stack
\* regions and denied in the kernel-stack region.
C36_UserRestricted ==
    MemInstalled =>
        /\ PrivOnly(AP(mpu.rasr[1]))
        /\ \A i \in {2, 3} :
              /\ AP(mpu.rasr[i]) # AP(mpu.rasr[1])
              /\ UnprivRead(AP(mpu.rasr[i])) /\ UnprivWrite(AP(mpu.rasr[i]))
              /\ UnprivWrite(AP(mpu.rasr[Deciding(mpu.rbar[i])]))
        /\ ~UnprivRead(AP(mpu.rasr[Deciding(mpu.rbar[1])]))
        /\ ~UnprivWrite(AP(mpu.rasr[Deciding(mpu.rbar[1])]))

\* C35: stack overflow is detected within one scheduling period. A corrupted
\* canary is caught by the canary check no later than the next schedule event,
\* before the next task is switched in: no schedule event completes while a
\* task stack's canary is corrupted.
C35_DetectedByNextTick ==
    (build = "stack" /\ op = "schedule_event") =>
        check_canary_all(TASK_STACK1, TASK_STACK2) = "ok"

\* C40: immediately after init_task_stack on a stack of length L >= 8 that
\* nothing has written since, used_stack_bytes returns 8 (never 0) and
\* free_stack_bytes returns L - 8; and a task write of the watermark value 0xA5
\* at the high-water mark (the topmost used byte or the lowest untouched one)
\* does not increase used_stack_bytes.
C40_FreshStack ==
    /\ [](sys.kind = "stack_bytes" =>
            LET stack == TaskStack(sys.k) IN
            (stack_writes = 0 /\ ~Zeroed(stack) /\ Len(stack) >= 8) =>
                /\ sys.used = 8
                /\ sys.free = Len(stack) - 8)
    /\ [][(op' = "task_write" /\ sys'.b = STACK_PATTERN) =>
             LET before == TaskStack(sys'.k)
                 after == IF sys'.k = 1 THEN TASK_STACK1' ELSE TASK_STACK2'
             IN sys'.i \in {used_stack_bytes(before), used_stack_bytes(before) + 1} =>
                   used_stack_bytes(after) <= used_stack_bytes(before)]_vars

\* A measurement of a freshly initialised stack of 8 bytes, all of them canary.
C40_Witness ==
    /\ build = "stack_slice"
    /\ sys.kind = "stack_bytes"
    /\ stack_writes = 0
    /\ Len(TaskStack(sys.k)) = 8
    /\ TaskStack(sys.k) = STACK_CANARY
    /\ sys.used = 8
    /\ sys.free = 0

TypeOK ==
    /\ build \in {"kernel", "sched_ipc", "dispatch", "memory", "encode", "systick",
                 "stack", "stack_slice", "bootloader", "msgq", "spsc", "kqueue",
                 "sync"}
    /\ regs \in [Regs -> Val]
    /\ psp \in 0..(MaxTasks * StackWords + 1)
    /\ mem \in [Addr -> Val]
    /\ pendsv \in BOOLEAN
    /\ primask \in BOOLEAN
    /\ cs_pc \in {"idle", "picked", "saved"}
====
